---------------------------- MODULE Spec2Model ----------------------------
(***************************************************************************)
(* A model of the goavro codec: the schema builder with its symbol table,  *)
(* and the four codec operations (binary and Avro-JSON encode and decode)  *)
(* of every type constructor, from src/codec.go and src/json_encoder.go.   *)
(*                                                                         *)
(* Go strings are sequences of bytes (0..255) everywhere: schema keywords, *)
(* type names, field names, map keys and string data share one space, as   *)
(* they do in the program.  A Go value (interface{}) is a record whose     *)
(* field k is its dynamic type.  JSON text is a document tree whose        *)
(* objects keep the order of their members.                                *)
(***************************************************************************)
EXTENDS Integers, Sequences, FiniteSets, TLC

---------------------------------------------------------------------------
(* Go string literals of the program, as byte sequences.                   *)
s_null == <<110, 117, 108, 108>>                    \* "null"
s_boolean == <<98, 111, 111, 108, 101, 97, 110>>    \* "boolean"
s_int == <<105, 110, 116>>                          \* "int"
s_long == <<108, 111, 110, 103>>                    \* "long"
s_float == <<102, 108, 111, 97, 116>>               \* "float"
s_double == <<100, 111, 117, 98, 108, 101>>         \* "double"
s_bytes == <<98, 121, 116, 101, 115>>               \* "bytes"
s_string == <<115, 116, 114, 105, 110, 103>>        \* "string"
s_record == <<114, 101, 99, 111, 114, 100>>         \* "record"
s_enum == <<101, 110, 117, 109>>                    \* "enum"
s_fixed == <<102, 105, 120, 101, 100>>              \* "fixed"
s_map == <<109, 97, 112>>                           \* "map"
s_array == <<97, 114, 114, 97, 121>>                \* "array"
s_union == <<117, 110, 105, 111, 110>>              \* "union"
s_bool == <<98, 111, 111, 108>>                     \* "bool"
s_int32 == <<105, 110, 116, 51, 50>>                \* "int32"
s_int64 == <<105, 110, 116, 54, 52>>                \* "int64"
s_float32 == <<102, 108, 111, 97, 116, 51, 50>>     \* "float32"
s_float64 == <<102, 108, 111, 97, 116, 54, 52>>     \* "float64"
s_uint8s == <<91, 93, 117, 105, 110, 116, 56>>      \* "[]uint8"
s_type == <<116, 121, 112, 101>>                    \* "type"
s_name == <<110, 97, 109, 101>>                     \* "name"
s_namespace == <<110, 97, 109, 101, 115, 112, 97, 99, 101>>\* "namespace"
s_fields == <<102, 105, 101, 108, 100, 115>>        \* "fields"
s_symbols == <<115, 121, 109, 98, 111, 108, 115>>   \* "symbols"
s_size == <<115, 105, 122, 101>>                    \* "size"
s_items == <<105, 116, 101, 109, 115>>              \* "items"
s_values == <<118, 97, 108, 117, 101, 115>>         \* "values"
s_default == <<100, 101, 102, 97, 117, 108, 116>>   \* "default"
s_empty == << >>                                    \* ""
nullNamespace == s_empty

(* Names and data used by the schemas and data the model draws from.       *)
s_R == <<82>>                                       \* "R"
s_E == <<69>>                                       \* "E"
s_F == <<70>>                                       \* "F"
s_Node == <<78, 111, 100, 101>>                     \* "Node"
s_next == <<110, 101, 120, 116>>                    \* "next"
s_a == <<97>>                                       \* "a"
s_b == <<98>>                                       \* "b"
s_e == <<101>>                                      \* "e"
s_f == <<102>>                                      \* "f"
s_A == <<65>>                                       \* "A"
s_B == <<66>>                                       \* "B"
s_C == <<67>>                                       \* "C"
s_Z == <<90>>                                       \* "Z"
s_hi == <<104, 105>>                                \* "hi"
s_ns == <<110, 115>>                                \* "ns"

---------------------------------------------------------------------------
(* Go values.  k is the dynamic type of the interface{} value.             *)
Nil == [k |-> "nil"]
GoBool(b) == [k |-> "bool", v |-> b]
GoInt(n) == [k |-> "int", v |-> n]
Int32(n) == [k |-> "int32", v |-> n]
Int64(n) == [k |-> "int64", v |-> n]
Float64(n) == [k |-> "float64", v |-> n]
GoString(s) == [k |-> "string", v |-> s]
GoBytes(b) == [k |-> "[]uint8", v |-> b]
JSONNumber(n) == [k |-> "json.Number", v |-> n]
(* A number the integers of the model cannot hold, or one with a fraction, *)
(* is held as its text: the sign, the decimal digits of the integer part   *)
(* (no leading zero) and the digits of the fraction.  IsText tells such a  *)
(* value from one that has its number in v.                                *)
IsText(n) == "digits" \in DOMAIN n
JSONNumberText(neg, digits, frac) ==
    [k |-> "json.Number", neg |-> neg, digits |-> digits, frac |-> frac]
Int64Text(neg, digits) == [k |-> "int64", neg |-> neg, digits |-> digits]
Float64Text(neg, digits, frac) ==
    [k |-> "float64", neg |-> neg, digits |-> digits, frac |-> frac]
(* A []interface{}: a nil slice and an empty slice are different values.   *)
Slice(items) == [k |-> "[]interface{}", isnil |-> FALSE, v |-> items]
NilSlice == [k |-> "[]interface{}", isnil |-> TRUE, v |-> << >>]
(* A map[string]interface{}: a function from its keys.                     *)
GoMap(f) == [k |-> "map[string]interface{}", v |-> f]
EmptyMap == GoMap(<< >>)
Enum(name, value) == [k |-> "Enum", Name |-> name, Value |-> value]
Fixed(name, value) == [k |-> "Fixed", Name |-> name, Value |-> value]
KeyVal(key, val) == [Key |-> key, Val |-> val]
OrderedMap(kvs) == [k |-> "OrderedMap", v |-> kvs]

(* reflect.TypeOf(datum).String() for the dynamic types of the model.      *)
TypeOfString(datum) ==
    CASE datum.k = "bool" -> s_bool
      [] datum.k = "int" -> s_int
      [] datum.k = "int32" -> s_int32
      [] datum.k = "int64" -> s_int64
      [] datum.k = "float64" -> s_float64
      [] datum.k = "string" -> s_string
      [] datum.k = "[]uint8" -> s_uint8s
      [] datum.k = "json.Number" -> <<106, 115, 111, 110, 46, 78, 117, 109, 98, 101, 114>>

(* Errors.  An error value is nil, an error with its friendly name, its    *)
(* message and its cause, or (for a call that never returns an error) the  *)
(* run-time panic that ended the call.                                     *)
NoErr == [e |-> "nil"]
Err(friendlyName, msg) == [e |-> "error", by |-> friendlyName, msg |-> msg, cause |-> NoErr]
ErrWrap(friendlyName, msg, cause) == [e |-> "error", by |-> friendlyName, msg |-> msg, cause |-> cause]
Panic(what) == [e |-> "panic", by |-> what, msg |-> "panic", cause |-> NoErr]
IsPanic(err) == err.e = "panic"
(* An error returned through a caller that wraps it: a panic unwinds.      *)
newEncoderError(friendlyName, cause) ==
    IF IsPanic(cause) THEN cause ELSE ErrWrap(friendlyName, "", cause)
newDecoderError(friendlyName, cause) ==
    IF IsPanic(cause) THEN cause ELSE ErrWrap(friendlyName, "", cause)
newCodecBuildError(friendlyName, msg, cause) ==
    IF IsPanic(cause) THEN cause ELSE ErrWrap(friendlyName, msg, cause)

---------------------------------------------------------------------------
(* Sequence and map helpers.                                               *)
Range(s) == {s[i] : i \in DOMAIN s}
RECURSIVE Concat(_)
Concat(ss) == IF ss = << >> THEN << >> ELSE Head(ss) \o Concat(Tail(ss))
(* Byte-wise order of two Go strings (sort.Strings, used by json.Marshal). *)
RECURSIVE StrLess(_, _)
StrLess(a, b) ==
    IF a = << >> THEN b # << >>
    ELSE IF b = << >> THEN FALSE
    ELSE IF Head(a) # Head(b) THEN Head(a) < Head(b)
    ELSE StrLess(Tail(a), Tail(b))
RECURSIVE SortedKeys(_)
SortedKeys(S) ==
    IF S = {} THEN << >>
    ELSE LET m == CHOOSE x \in S : \A y \in S \ {x} : StrLess(x, y)
         IN <<m>> \o SortedKeys(S \ {m})
Rotate(s, n) ==
    IF s = << >> THEN s
    ELSE LET r == n % Len(s) IN SubSeq(s, r + 1, Len(s)) \o SubSeq(s, 1, r)
(* The order in which a range loop visits the keys of a Go map.  The       *)
(* language leaves it unspecified; seed picks which key comes first.       *)
MapRange(m, seed) == Rotate(SortedKeys(DOMAIN m), seed)
(* A Go map built by assigning the pairs of kvs in order (last one wins).  *)
MapOf(kvs) ==
    [key \in {kvs[i][1] : i \in DOMAIN kvs} |->
        kvs[CHOOSE i \in DOMAIN kvs :
                /\ kvs[i][1] = key
                /\ \A j \in DOMAIN kvs : kvs[j][1] = key => j <= i][2]]
MapSet(m, key, val) == [x \in DOMAIN m \cup {key} |-> IF x = key THEN val ELSE m[x]]

---------------------------------------------------------------------------
(* Primitive binary I/O (encoder.go and decoder.go of the repository):     *)
(* zig-zag variable-length int and long, length-prefixed bytes and string, *)
(* one-byte boolean, zero-byte null.  An encoder returns the error and the *)
(* bytes w it wrote; a decoder returns the error, the value v and the rest *)
(* of the stream.                                                          *)
ZigZag(n) == IF n >= 0 THEN 2 * n ELSE -2 * n - 1
UnZigZag(u) == IF u % 2 = 0 THEN u \div 2 ELSE -((u + 1) \div 2)
RECURSIVE Varint(_)
Varint(u) == IF u < 128 THEN <<u>> ELSE <<(u % 128) + 128>> \o Varint(u \div 128)
(* Reads base-128 groups until one has no continuation bit; fails on the   *)
(* end of the stream and on more than maxBytes groups.                     *)
RECURSIVE ReadVarint(_, _)
ReadVarint(r, maxBytes) ==
    IF r = << >> THEN [ok |-> FALSE, u |-> 0, rest |-> r]
    ELSE IF maxBytes = 0 THEN [ok |-> FALSE, u |-> 0, rest |-> r]
    ELSE IF Head(r) < 128 THEN [ok |-> TRUE, u |-> Head(r), rest |-> Tail(r)]
    ELSE LET Read(more) ==
                [ok |-> more.ok, u |-> (Head(r) % 128) + 128 * more.u, rest |-> more.rest]
         IN Read(ReadVarint(Tail(r), maxBytes - 1))

nullEncoder(datum) == [err |-> NoErr, w |-> << >>]
booleanEncoder(datum) ==
    IF datum.k # "bool" THEN [err |-> Err("boolean", "expected: bool"), w |-> << >>]
    ELSE [err |-> NoErr, w |-> IF datum.v THEN <<1>> ELSE <<0>>]
intEncoder(datum) ==
    IF datum.k # "int32" THEN [err |-> Err("int", "expected: int32"), w |-> << >>]
    ELSE [err |-> NoErr, w |-> Varint(ZigZag(datum.v))]
longEncoder(datum) ==
    IF datum.k # "int64" THEN [err |-> Err("long", "expected: int64"), w |-> << >>]
    ELSE [err |-> NoErr, w |-> Varint(ZigZag(datum.v))]
floatEncoder(datum) == [err |-> Err("float", "expected: float32"), w |-> << >>]
doubleEncoder(datum) == [err |-> Err("double", "expected: float64"), w |-> << >>]
bytesEncoder(datum) ==
    IF datum.k # "[]uint8" THEN [err |-> Err("bytes", "expected: []byte"), w |-> << >>]
    ELSE [err |-> NoErr, w |-> Varint(ZigZag(Len(datum.v))) \o datum.v]
stringEncoder(datum) ==
    IF datum.k # "string" THEN [err |-> Err("string", "expected: string"), w |-> << >>]
    ELSE [err |-> NoErr, w |-> Varint(ZigZag(Len(datum.v))) \o datum.v]

nullDecoder(r) == [err |-> NoErr, v |-> Nil, rest |-> r]
booleanDecoder(r) ==
    IF r = << >> THEN [err |-> Err("boolean", "short read"), v |-> Nil, rest |-> r]
    ELSE IF Head(r) \notin {0, 1}
         THEN [err |-> Err("boolean", "expected 1 or 0"), v |-> Nil, rest |-> Tail(r)]
    ELSE [err |-> NoErr, v |-> GoBool(Head(r) = 1), rest |-> Tail(r)]
intDecoder(r) ==
    LET Read(x) ==
            IF ~x.ok THEN [err |-> Err("int", "short read"), v |-> Nil, rest |-> x.rest]
            ELSE [err |-> NoErr, v |-> Int32(UnZigZag(x.u)), rest |-> x.rest]
    IN Read(ReadVarint(r, 5))
longDecoder(r) ==
    LET Read(x) ==
            IF ~x.ok THEN [err |-> Err("long", "short read"), v |-> Nil, rest |-> x.rest]
            ELSE [err |-> NoErr, v |-> Int64(UnZigZag(x.u)), rest |-> x.rest]
    IN Read(ReadVarint(r, 10))
floatDecoder(r) == [err |-> Err("float", "short read"), v |-> Nil, rest |-> << >>]
doubleDecoder(r) == [err |-> Err("double", "short read"), v |-> Nil, rest |-> << >>]
ReadBlob(friendlyName, r) ==
    LET Read(n) ==
            IF n.err # NoErr THEN [err |-> n.err, v |-> << >>, rest |-> n.rest]
            ELSE IF n.v.v < 0
                 THEN [err |-> Err(friendlyName, "negative length"), v |-> << >>, rest |-> n.rest]
            ELSE IF Len(n.rest) < n.v.v
                 THEN [err |-> Err(friendlyName, "buffer underrun"), v |-> << >>, rest |-> << >>]
            ELSE [err |-> NoErr, v |-> SubSeq(n.rest, 1, n.v.v),
                  rest |-> SubSeq(n.rest, n.v.v + 1, Len(n.rest))]
    IN Read(longDecoder(r))
bytesDecoder(r) ==
    LET Read(x) ==
            [err |-> x.err, v |-> IF x.err = NoErr THEN GoBytes(x.v) ELSE Nil, rest |-> x.rest]
    IN Read(ReadBlob("bytes", r))
stringDecoder(r) ==
    LET Read(x) ==
            [err |-> x.err, v |-> IF x.err = NoErr THEN GoString(x.v) ELSE Nil, rest |-> x.rest]
    IN Read(ReadBlob("string", r))

---------------------------------------------------------------------------
(* JSON text (encoding/json).  A document is a tree; an object keeps its   *)
(* members in the order of the text; a string is its code points.          *)
JNull == [k |-> "null"]
JBool(b) == [k |-> "bool", v |-> b]
JNum(n) == [k |-> "num", v |-> n]
JNumText(neg, digits, frac) == [k |-> "num", neg |-> neg, digits |-> digits, frac |-> frac]
JStr(cps) == [k |-> "str", v |-> cps]
JArr(items) == [k |-> "arr", v |-> items]
JObj(members) == [k |-> "obj", v |-> members]
(* Text that is not JSON.                                                  *)
JBad == [k |-> "bad"]

IsCont(b) == b \in 128..191
(* The code points json.Marshal writes for a Go string: each byte that     *)
(* does not start a valid UTF-8 sequence becomes U+FFFD.                   *)
RECURSIVE Utf8Decode(_)
Utf8Decode(b) ==
    IF b = << >> THEN << >>
    ELSE LET b1 == Head(b)
             n == Len(b)
             cp2 == (b1 - 192) * 64 + (b[2] - 128)
             cp3 == (b1 - 224) * 4096 + (b[2] - 128) * 64 + (b[3] - 128)
             cp4 == (b1 - 240) * 262144 + (b[2] - 128) * 4096
                        + (b[3] - 128) * 64 + (b[4] - 128)
         IN IF b1 < 128 THEN <<b1>> \o Utf8Decode(Tail(b))
            ELSE IF b1 \in 194..223 /\ n >= 2 /\ IsCont(b[2])
                 THEN <<cp2>> \o Utf8Decode(SubSeq(b, 3, n))
            ELSE IF /\ b1 \in 224..239 /\ n >= 3 /\ IsCont(b[2]) /\ IsCont(b[3])
                    /\ cp3 >= 2048 /\ cp3 \notin 55296..57343
                 THEN <<cp3>> \o Utf8Decode(SubSeq(b, 4, n))
            ELSE IF /\ b1 \in 240..244 /\ n >= 4 /\ IsCont(b[2]) /\ IsCont(b[3])
                    /\ IsCont(b[4]) /\ cp4 \in 65536..1114111
                 THEN <<cp4>> \o Utf8Decode(SubSeq(b, 5, n))
            ELSE <<65533>> \o Utf8Decode(Tail(b))
(* The bytes of the Go string json.Unmarshal makes of a JSON string.       *)
RECURSIVE Utf8Encode(_)
Utf8Encode(cps) ==
    IF cps = << >> THEN << >>
    ELSE LET c == Head(cps)
             enc == IF c < 128 THEN <<c>>
                    ELSE IF c < 2048 THEN <<192 + (c \div 64), 128 + (c % 64)>>
                    ELSE IF c < 65536
                         THEN <<224 + (c \div 4096), 128 + ((c \div 64) % 64), 128 + (c % 64)>>
                    ELSE <<240 + (c \div 262144), 128 + ((c \div 4096) % 64),
                           128 + ((c \div 64) % 64), 128 + (c % 64)>>
         IN enc \o Utf8Encode(Tail(cps))

s_Name == <<78, 97, 109, 101>>                      \* "Name"
s_Value == <<86, 97, 108, 117, 101>>                \* "Value"
s_Fields == <<70, 105, 101, 108, 100, 115>>          \* "Fields"
s_Datum == <<68, 97, 116, 117, 109>>                \* "Datum"
(* json.Marshal of a Go value: a nil slice is null, the keys of a map are  *)
(* written in sorted order, an OrderedMap in its own order, a struct as    *)
(* its exported fields.                                                    *)
RECURSIVE Marshal(_)
Marshal(val) ==
    CASE val.k = "nil" -> JNull
      [] val.k = "bool" -> JBool(val.v)
      [] val.k \in {"int", "int32", "int64", "json.Number"} ->
            IF ~IsText(val) THEN JNum(val.v)
            ELSE JNumText(val.neg, val.digits, IF val.k = "int64" THEN << >> ELSE val.frac)
      [] val.k = "string" -> JStr(Utf8Decode(val.v))
      [] val.k = "[]interface{}" ->
            IF val.isnil THEN JNull
            ELSE JArr([i \in DOMAIN val.v |-> Marshal(val.v[i])])
      [] val.k = "map[string]interface{}" ->
            LET keys == SortedKeys(DOMAIN val.v)
            IN JObj([i \in DOMAIN keys |-> <<Utf8Decode(keys[i]), Marshal(val.v[keys[i]])>>])
      [] val.k = "OrderedMap" ->
            JObj([i \in DOMAIN val.v |->
                    <<Utf8Decode(val.v[i].Key), Marshal(val.v[i].Val)>>])
      [] val.k = "Enum" ->
            JObj(<< <<s_Name, JStr(Utf8Decode(val.Name))>>,
                    <<s_Value, JStr(Utf8Decode(val.Value))>> >>)
      [] val.k = "*Record" ->
            JObj(<< <<s_Name, JStr(Utf8Decode(val.Name))>>,
                    <<s_Fields,
                      JArr([i \in DOMAIN val.Fields |->
                                JObj(<< <<s_Name, JStr(Utf8Decode(val.Fields[i].Name))>>,
                                        <<s_Datum, Marshal(val.Fields[i].Datum)>> >>)])>> >>)
(* json.Unmarshal into an interface{} with UseNumber: an object becomes a  *)
(* map (of a repeated key the last member stays), an array a non-nil       *)
(* slice, a number a json.Number.                                          *)
RECURSIVE Unmarshal(_)
Unmarshal(doc) ==
    CASE doc.k = "null" -> Nil
      [] doc.k = "bool" -> GoBool(doc.v)
      [] doc.k = "num" -> IF IsText(doc) THEN JSONNumberText(doc.neg, doc.digits, doc.frac)
                          ELSE JSONNumber(doc.v)
      [] doc.k = "str" -> GoString(Utf8Encode(doc.v))
      [] doc.k = "arr" -> Slice([i \in DOMAIN doc.v |-> Unmarshal(doc.v[i])])
      [] doc.k = "obj" ->
            GoMap(MapOf([i \in DOMAIN doc.v |->
                            <<Utf8Encode(doc.v[i][1]), Unmarshal(doc.v[i][2])>>]))
(* decoder.Decode(&value) on a stream r of documents: the error and the    *)
(* value.  want is the static type of value.                               *)
JSONDecoderDecode(r, want) ==
    IF r = << >> THEN [err |-> Err("json", "EOF"), v |-> Nil]
    ELSE LET doc == Head(r)
         IN IF doc.k = "bad" THEN [err |-> Err("json", "invalid character"), v |-> Nil]
            ELSE IF want = "interface{}" THEN [err |-> NoErr, v |-> Unmarshal(doc)]
            ELSE IF want = "map[string]interface{}"
                 THEN IF doc.k = "null" THEN [err |-> NoErr, v |-> EmptyMap]
                      ELSE IF doc.k = "obj" THEN [err |-> NoErr, v |-> Unmarshal(doc)]
                      ELSE [err |-> Err("json", "cannot unmarshal"), v |-> EmptyMap]
            ELSE IF doc.k = "null" THEN [err |-> NoErr, v |-> NilSlice]
                 ELSE IF doc.k = "arr" THEN [err |-> NoErr, v |-> Unmarshal(doc)]
                 ELSE [err |-> Err("json", "cannot unmarshal"), v |-> NilSlice]

---------------------------------------------------------------------------
(* Names (name.go of the repository).  A name that holds a dot is already  *)
(* full; otherwise the schema's namespace, else the enclosing namespace,   *)
(* qualifies it.                                                           *)
Dot == 46
HasDot(s) == \E i \in DOMAIN s : s[i] = Dot
LastDot(s) == CHOOSE i \in DOMAIN s : s[i] = Dot /\ \A j \in DOMAIN s : s[j] = Dot => j <= i
FullName(nameStr, ns, ens) ==
    IF HasDot(nameStr) THEN nameStr
    ELSE IF ns # nullNamespace THEN ns \o <<Dot>> \o nameStr
    ELSE IF ens # nullNamespace THEN ens \o <<Dot>> \o nameStr
    ELSE nameStr
namespace(n) == IF HasDot(n.n) THEN SubSeq(n.n, 1, LastDot(n.n) - 1) ELSE nullNamespace
shortname(n) == IF HasDot(n.n) THEN SubSeq(n.n, LastDot(n.n) + 1, Len(n.n)) ELSE n.n
(* newName(nameName(s), nameEnclosingNamespace(ens))                       *)
newName(nameStr, ens) ==
    IF nameStr = s_empty THEN [err |-> Err("name", "ought to be non-empty"), n |-> [n |-> s_empty]]
    ELSE [err |-> NoErr, n |-> [n |-> FullName(nameStr, nullNamespace, ens)]]
IsString(val) == val.k = "string"
IsArray(val) == val.k = "[]interface{}"
IsMap(val) == val.k = "map[string]interface{}"
HasKey(m, key) == key \in DOMAIN m.v
(* newName(nameSchema(schemaMap), nameEnclosingNamespace(ens))             *)
newNameSchema(schemaMap, ens) ==
    IF ~HasKey(schemaMap, s_name) \/ ~IsString(schemaMap.v[s_name])
    THEN [err |-> Err("name", "ought to have name key"), n |-> [n |-> s_empty]]
    ELSE LET ns == IF HasKey(schemaMap, s_namespace) /\ IsString(schemaMap.v[s_namespace])
                   THEN schemaMap.v[s_namespace].v ELSE nullNamespace
             nm == schemaMap.v[s_name].v
         IN IF nm = s_empty
            THEN [err |-> Err("name", "ought to be non-empty"), n |-> [n |-> s_empty]]
            ELSE [err |-> NoErr, n |-> [n |-> FullName(nm, ns, ens)]]

(* Records (record.go of the repository).  The default of a field, as the  *)
(* Go value its type encodes.                                              *)
DefaultValue(fieldType, val) ==
    IF val.k = "float64" /\ fieldType = GoString(s_int) THEN Int32(val.v)
    ELSE IF val.k = "float64" /\ fieldType = GoString(s_long) THEN Int64(val.v)
    ELSE val
newRecordField(fieldSchema, ens) ==
    IF ~IsMap(fieldSchema) THEN [err |-> Err("record field", "ought to be map"), f |-> Nil]
    ELSE IF ~HasKey(fieldSchema, s_name) \/ ~IsString(fieldSchema.v[s_name])
         THEN [err |-> Err("record field", "ought to have name key"), f |-> Nil]
    ELSE IF ~HasKey(fieldSchema, s_type)
         THEN [err |-> Err("record field", "ought to have type key"), f |-> Nil]
    ELSE LET hasDefault == HasKey(fieldSchema, s_default)
             defval == IF hasDefault
                       THEN DefaultValue(fieldSchema.v[s_type], fieldSchema.v[s_default])
                       ELSE Nil
         IN [err |-> NoErr,
             f |-> [Name |-> FullName(fieldSchema.v[s_name].v, nullNamespace, ens),
                    Datum |-> Nil, hasDefault |-> hasDefault, defval |-> defval,
                    schema |-> fieldSchema.v[s_type]]]
(* NewRecord(recordSchemaRaw(schema), RecordEnclosingNamespace(ens)): the  *)
(* record of the schema with no datum in any field.                        *)
NewRecord(schema, ens) ==
    IF ~IsMap(schema) THEN [err |-> Err("record", "schema ought to be map"), rec |-> Nil]
    ELSE LET Fielded(nm, fs) ==
                IF \E i \in DOMAIN fs : fs[i].err # NoErr
                THEN [err |-> fs[CHOOSE i \in DOMAIN fs : fs[i].err # NoErr].err, rec |-> Nil]
                ELSE [err |-> NoErr,
                      rec |-> [k |-> "*Record", Name |-> nm.n.n, n |-> nm.n,
                               Fields |-> [i \in DOMAIN fs |-> fs[i].f]]]
             Named(nm) ==
                IF nm.err # NoErr THEN [err |-> nm.err, rec |-> Nil]
                ELSE IF ~HasKey(schema, s_fields) \/ ~IsArray(schema.v[s_fields])
                     THEN [err |-> Err("record", "ought to have fields key"), rec |-> Nil]
                ELSE Fielded(nm, [i \in DOMAIN schema.v[s_fields].v |->
                                    newRecordField(schema.v[s_fields].v[i], namespace(nm.n))])
         IN Named(newNameSchema(schema, ens))
(* someRecord.getField(key): the index of the field of that name, or 0.    *)
getField(someRecord, fieldName) ==
    IF \E i \in DOMAIN someRecord.Fields : someRecord.Fields[i].Name = fieldName
    THEN CHOOSE i \in DOMAIN someRecord.Fields : someRecord.Fields[i].Name = fieldName
    ELSE 0

---------------------------------------------------------------------------
(* The builder.  A codec is the data its four closures capture: c is the   *)
(* constructor, nm the codec's name.  The symbol table st maps full names  *)
(* to codecs (symtab.name); a build step returns the error, the codec and  *)
(* the symbol table as the step left it.                                   *)
NoCodec == [c |-> "none", nm |-> [n |-> s_empty]]
nullCodec == [c |-> "null", nm |-> [n |-> s_null]]
booleanCodec == [c |-> "boolean", nm |-> [n |-> s_bool]]
intCodec == [c |-> "int", nm |-> [n |-> s_int32]]
longCodec == [c |-> "long", nm |-> [n |-> s_int64]]
floatCodec == [c |-> "float", nm |-> [n |-> s_float32]]
doubleCodec == [c |-> "double", nm |-> [n |-> s_float64]]
bytesCodec == [c |-> "bytes", nm |-> [n |-> s_uint8s]]
stringCodec == [c |-> "string", nm |-> [n |-> s_string]]
(* A symbol table that holds the enum E of another build.                  *)
symbolTableOfEarlierBuild ==
    [name \in {s_E} |-> [c |-> "enum", nm |-> [n |-> s_E], symtab |-> <<s_A, s_B, s_C>>]]

newSymbolTable == << >>
BuildErr(err, st) == [err |-> err, c |-> NoCodec, st |-> st]
BuildOk(c, st) == [err |-> NoErr, c |-> c, st |-> st]

PrimitiveNames == {s_null, s_boolean, s_int, s_long, s_float, s_double, s_bytes, s_string}
getUnionTypeName(friendlyName, enclosingNamespace, schema) ==
    LET full(name) == [err |-> name.err, tn |-> name.n.n]
        named(typeName) ==
            IF typeName \in PrimitiveNames THEN [err |-> NoErr, tn |-> typeName]
            ELSE full(newName(typeName, enclosingNamespace))
    IN  IF IsString(schema) THEN named(schema.v)
        ELSE IF IsMap(schema)
        THEN IF ~HasKey(schema, s_type)
             THEN [err |-> Err(friendlyName, "type field is missing"), tn |-> s_empty]
             ELSE IF ~IsString(schema.v[s_type])
                  THEN [err |-> Panic("interface conversion: not string"), tn |-> s_empty]
             ELSE IF schema.v[s_type].v \in {s_record, s_enum, s_fixed}
                  THEN full(newNameSchema(schema, enclosingNamespace))
             ELSE named(schema.v[s_type].v)
        ELSE [err |-> Err(friendlyName, "unsupported type in union"), tn |-> s_empty]

RECURSIVE buildCodec(_, _, _)
RECURSIVE buildMap(_, _, _)
RECURSIVE buildString(_, _, _, _)
RECURSIVE makeUnionCodec(_, _, _)
RECURSIVE unionMembers(_, _, _, _, _)
RECURSIVE makeRecordCodec(_, _, _)
RECURSIVE recordFieldCodecs(_, _, _, _, _)
RECURSIVE makeMapCodec(_, _, _)
RECURSIVE makeArrayCodec(_, _, _)

buildCodec(st, enclosingNamespace, schema) ==
    IF IsString(schema) THEN buildString(st, enclosingNamespace, schema.v, schema)
    ELSE IF IsArray(schema) THEN makeUnionCodec(st, enclosingNamespace, schema)
    ELSE IF IsMap(schema) THEN buildMap(st, enclosingNamespace, schema)
    ELSE BuildErr(Err("unknown", "schema type"), st)

buildMap(st, enclosingNamespace, schema) ==
    IF ~HasKey(schema, s_type) THEN BuildErr(Err("map", "ought have type"), st)
    ELSE LET t == schema.v[s_type]
         IN IF IsString(t) THEN buildString(st, enclosingNamespace, t.v, schema)
            ELSE IF IsMap(t) \/ IsArray(t) THEN buildCodec(st, enclosingNamespace, t)
            ELSE BuildErr(Err("map", "type ought to be either string, map or array"), st)

makeEnumCodec(st, enclosingNamespace, schema) ==
    IF ~IsMap(schema) THEN BuildErr(Err("enum", "expected: map[string]interface{}"), st)
    ELSE LET Made(c) == BuildOk(c, MapSet(st, c.nm.n, c))
             Named(nm, s) ==
                IF nm.err # NoErr THEN BuildErr(nm.err, st)
                ELSE IF ~HasKey(schema, s_symbols)
                     THEN BuildErr(Err("enum", "ought to have symbols key"), st)
                ELSE IF ~IsArray(s) \/ Len(s.v) = 0
                     THEN BuildErr(Err("enum", "symbols ought to be non-empty array"), st)
                ELSE IF \E i \in DOMAIN s.v : ~IsString(s.v[i])
                     THEN BuildErr(Err("enum", "symbols array member ought to be string"), st)
                ELSE Made([c |-> "enum", nm |-> nm.n,
                           symtab |-> [i \in DOMAIN s.v |-> s.v[i].v]])
         IN Named(newNameSchema(schema, enclosingNamespace),
                  IF HasKey(schema, s_symbols) THEN schema.v[s_symbols] ELSE Nil)

makeFixedCodec(st, enclosingNamespace, schema) ==
    IF ~IsMap(schema) THEN BuildErr(Err("fixed", "expected: map[string]interface{}"), st)
    ELSE LET Made(c) == BuildOk(c, MapSet(st, c.nm.n, c))
             Named(nm) ==
                IF nm.err # NoErr THEN BuildErr(nm.err, st)
                ELSE IF ~HasKey(schema, s_size)
                     THEN BuildErr(Err("fixed", "ought to have size key"), st)
                ELSE IF schema.v[s_size].k # "float64"
                     THEN BuildErr(Err("fixed", "size ought to be number"), st)
                ELSE Made([c |-> "fixed", nm |-> nm.n, size |-> schema.v[s_size].v])
         IN Named(newNameSchema(schema, enclosingNamespace))

buildString(st, enclosingNamespace, typeName, schema) ==
    CASE typeName = s_null -> BuildOk(nullCodec, st)
      [] typeName = s_boolean -> BuildOk(booleanCodec, st)
      [] typeName = s_int -> BuildOk(intCodec, st)
      [] typeName = s_long -> BuildOk(longCodec, st)
      [] typeName = s_float -> BuildOk(floatCodec, st)
      [] typeName = s_double -> BuildOk(doubleCodec, st)
      [] typeName = s_bytes -> BuildOk(bytesCodec, st)
      [] typeName = s_string -> BuildOk(stringCodec, st)
      [] typeName = s_record -> makeRecordCodec(st, enclosingNamespace, schema)
      [] typeName = s_enum -> makeEnumCodec(st, enclosingNamespace, schema)
      [] typeName = s_fixed -> makeFixedCodec(st, enclosingNamespace, schema)
      [] typeName = s_map -> makeMapCodec(st, enclosingNamespace, schema)
      [] typeName = s_array -> makeArrayCodec(st, enclosingNamespace, schema)
      [] OTHER ->
            LET Named(t) ==
                    IF t.err # NoErr
                    THEN BuildErr(newCodecBuildError("name", "could not normalize name", t.err),
                                  st)
                    ELSE IF t.n.n \notin DOMAIN st
                         THEN BuildErr(Err("unknown", "unknown type name"), st)
                    ELSE BuildOk(st[t.n.n], st)
            IN Named(newName(typeName, enclosingNamespace))

(* The loop of makeUnionCodec over the members, from member idx on.        *)
unionMembers(st, enclosingNamespace, schemaArray, idx, acc) ==
    IF idx > Len(schemaArray) THEN [err |-> NoErr, acc |-> acc, st |-> st]
    ELSE LET Member(r, unionType) ==
                IF r.err # NoErr
                THEN [err |-> newCodecBuildError("union", "member ought to be decodable", r.err),
                      acc |-> acc, st |-> r.st]
                ELSE IF unionType.err # NoErr
                     THEN [err |-> newCodecBuildError("union", "Can't get union type name",
                                                      unionType.err),
                           acc |-> acc, st |-> r.st]
                ELSE unionMembers(r.st, enclosingNamespace, schemaArray, idx + 1,
                        [allowedNames |-> Append(acc.allowedNames, r.c.nm.n),
                         indexToDecoder |-> Append(acc.indexToDecoder, r.c),
                         nameToJSONDecoder |-> MapSet(acc.nameToJSONDecoder, unionType.tn, r.c),
                         nameToUnionEncoder |->
                            MapSet(acc.nameToUnionEncoder, r.c.nm.n,
                                   [c |-> r.c, tn |-> unionType.tn, index |-> idx - 1])])
         IN Member(buildCodec(st, enclosingNamespace, schemaArray[idx]),
                   getUnionTypeName("union", enclosingNamespace, schemaArray[idx]))

makeUnionCodec(st, enclosingNamespace, schema) ==
    IF ~IsArray(schema) THEN BuildErr(Err("union", "ought to be array"), st)
    ELSE IF Len(schema.v) = 0
         THEN BuildErr(Err("union", "ought have at least one member"), st)
    ELSE LET Made(m) ==
                IF m.err # NoErr THEN BuildErr(m.err, m.st)
                ELSE BuildOk([c |-> "union", nm |-> [n |-> s_union],
                              allowedNames |-> m.acc.allowedNames,
                              indexToDecoder |-> m.acc.indexToDecoder,
                              nameToJSONDecoder |-> m.acc.nameToJSONDecoder,
                              nameToUnionEncoder |-> m.acc.nameToUnionEncoder], m.st)
         IN Made(unionMembers(st, enclosingNamespace, schema.v, 1,
                     [allowedNames |-> << >>, indexToDecoder |-> << >>,
                      nameToJSONDecoder |-> << >>, nameToUnionEncoder |-> << >>]))

(* The loop of makeRecordCodec over the fields, from field idx on.         *)
recordFieldCodecs(st, ns, fields, idx, acc) ==
    IF idx > Len(fields) THEN [err |-> NoErr, acc |-> acc, st |-> st]
    ELSE LET Field(r) ==
                IF r.err # NoErr
                THEN [err |-> newCodecBuildError("record", "record field ought to be codec",
                                                 r.err),
                      acc |-> acc, st |-> r.st]
                ELSE recordFieldCodecs(r.st, ns, fields, idx + 1,
                        [fieldCodecs |-> Append(acc.fieldCodecs, r.c),
                         fieldCodecMap |-> MapSet(acc.fieldCodecMap, fields[idx].Name, r.c)])
         IN Field(buildCodec(st, ns, fields[idx].schema))

makeRecordCodec(st, enclosingNamespace, schema) ==
    LET Made(c, symtab) == BuildOk(c, MapSet(symtab, c.recordTemplate.Name, c))
        Fielded(recordTemplate, f) ==
            IF f.err # NoErr THEN BuildErr(f.err, f.st)
            ELSE Made([c |-> "record", nm |-> recordTemplate.n,
                       recordTemplate |-> recordTemplate,
                       fieldCodecs |-> f.acc.fieldCodecs,
                       fieldCodecMap |-> f.acc.fieldCodecMap], f.st)
        Templated(t) ==
            IF t.err # NoErr THEN BuildErr(t.err, st)
            ELSE IF Len(t.rec.Fields) = 0
                 THEN BuildErr(Err("record", "fields ought to be non-empty array"), st)
            ELSE Fielded(t.rec, recordFieldCodecs(st, namespace(t.rec.n), t.rec.Fields, 1,
                                    [fieldCodecs |-> << >>, fieldCodecMap |-> << >>]))
    IN  Templated(NewRecord(schema, enclosingNamespace))

makeMapCodec(st, enclosingNamespace, schema) ==
    IF ~IsMap(schema) THEN BuildErr(Err("map", "expected: map[string]interface{}"), st)
    ELSE IF ~HasKey(schema, s_values) THEN BuildErr(Err("map", "ought to have values key"), st)
    ELSE LET Made(r) ==
                IF r.err # NoErr THEN BuildErr(newCodecBuildError("map", "", r.err), r.st)
                ELSE BuildOk([c |-> "map", nm |-> [n |-> s_map], valuesCodec |-> r.c], r.st)
         IN Made(buildCodec(st, enclosingNamespace, schema.v[s_values]))

itemsPerArrayBlock == 10
makeArrayCodec(st, enclosingNamespace, schema) ==
    IF ~IsMap(schema) THEN BuildErr(Err("array", "expected: map[string]interface{}"), st)
    ELSE IF ~HasKey(schema, s_items) THEN BuildErr(Err("array", "ought to have items key"), st)
    ELSE LET Made(r) ==
                IF r.err # NoErr THEN BuildErr(newCodecBuildError("array", "", r.err), r.st)
                ELSE BuildOk([c |-> "array", nm |-> [n |-> s_array], valuesCodec |-> r.c], r.st)
         IN Made(buildCodec(st, enclosingNamespace, schema.v[s_items]))

(* NewCodec on the parsed schema text: a fresh symbol table per call.      *)
NewCodec(schema) ==
    buildCodec(newSymbolTable, nullNamespace, schema)

---------------------------------------------------------------------------
(* The schemas the model builds codecs from, as json.Unmarshal gives them  *)
(* to NewCodec: a string, an array or an object.                           *)
SStr(s) == GoString(s)
SArr(items) == Slice(items)
SObj(kvs) == GoMap(MapOf(kvs))
SField(name, type) == SObj(<< <<s_name, SStr(name)>>, <<s_type, type>> >>)
SFieldDefault(name, type, default) ==
    SObj(<< <<s_name, SStr(name)>>, <<s_type, type>>, <<s_default, default>> >>)
SRecord(name, fields) ==
    SObj(<< <<s_type, SStr(s_record)>>, <<s_name, SStr(name)>>, <<s_fields, SArr(fields)>> >>)
SEnum(name, symbols) ==
    SObj(<< <<s_type, SStr(s_enum)>>, <<s_name, SStr(name)>>,
            <<s_symbols, SArr([i \in DOMAIN symbols |-> SStr(symbols[i])])>> >>)
SFixed(name, size) ==
    SObj(<< <<s_type, SStr(s_fixed)>>, <<s_name, SStr(name)>>, <<s_size, Float64(size)>> >>)
SArray(items) == SObj(<< <<s_type, SStr(s_array)>>, <<s_items, items>> >>)
SMap(values) == SObj(<< <<s_type, SStr(s_map)>>, <<s_values, values>> >>)

(* A record whose fields are not declared in the order of their names.     *)
BeforeA == SRecord(s_R, <<SField(s_b, SStr(s_int)), SField(s_a, SStr(s_int))>>)

(* A record whose fields define the enum E twice, with other symbols, and  *)
(* then refer to it.                                                       *)
TwiceE ==
    SRecord(s_R, <<SField(s_e, SEnum(s_E, <<s_A, s_B>>)),
                   SField(s_f, SEnum(s_E, <<s_C>>)),
                   SField(s_a, SStr(s_E))>>)
Schemas ==
    << SStr(s_int),
       SStr(s_long),
       SStr(s_string),
       SStr(s_bytes),
       SStr(s_boolean),
       SArr(<<SStr(s_null), SStr(s_int)>>),
       SArr(<<SStr(s_int), SStr(s_string)>>),
       SArr(<<SStr(s_int), SStr(s_int)>>),
       SArr(<<SArray(SStr(s_int)), SArray(SStr(s_string))>>),
       SEnum(s_E, <<s_A, s_B, s_C>>),
       SFixed(s_F, 2),
       SRecord(s_R, <<SField(s_a, SStr(s_int)), SField(s_b, SStr(s_string))>>),
       SArr(<<SStr(s_null),
              SRecord(s_R, <<SField(s_b, SStr(s_int)), SField(s_a, SStr(s_int))>>)>>),
       SArray(SStr(s_int)),
       SMap(SStr(s_int)),
       SRecord(s_Node, <<SField(s_next, SArr(<<SStr(s_null), SStr(s_Node)>>))>>),
       SRecord(s_R, <<SField(s_e, SEnum(s_E, <<s_A, s_B>>)), SField(s_f, SStr(s_E))>>),
       SRecord(s_R, <<SField(s_a, SArr(<<SStr(s_null), SStr(s_int)>>))>>),
       SRecord(s_R, <<SFieldDefault(s_a, SStr(s_int), Float64(7)), SField(s_b, SStr(s_int))>>),
       SArr(<<SStr(s_null), SEnum(s_E, <<s_A, s_B>>), SFixed(s_F, 1), SStr(s_bytes)>>),
       SArr(<< >>),
       SStr(s_Z),
       SRecord(s_Node, <<SField(s_next, BeforeA)>>),
       SStr(s_null),
       SStr(s_E),
       TwiceE >>

---------------------------------------------------------------------------
(* Binary encode: c.ef(w, datum).  The result is the error returned and    *)
(* the bytes w written to the stream before the call returned.  seed       *)
(* settles the order of the range loops over Go maps.                      *)
EncOk(w) == [err |-> NoErr, w |-> w]
EncErr(err, w) == [err |-> err, w |-> w]
(* The name under which a union looks a datum up (the type switch of the   *)
(* union's ef and jef).                                                    *)
unionDatumName(datum) ==
    CASE datum.k = "map[string]interface{}" -> s_map
      [] datum.k = "[]interface{}" -> s_array
      [] datum.k = "nil" -> s_null
      [] datum.k \in {"Enum", "Fixed", "*Record"} -> datum.Name
      [] OTHER -> TypeOfString(datum)
(* The error of a union encode whose datum matches no member.              *)
invalidType(allowedNames, name) ==
    [e |-> "error", by |-> "union", msg |-> "datum ought match schema",
     cause |-> NoErr, expected |-> allowedNames, received |-> name]

RECURSIVE Ef(_, _, _)
RECURSIVE recordEfFields(_, _, _, _)
RECURSIVE mapEfEntries(_, _, _, _)
RECURSIVE arrayEfItems(_, _, _)
RECURSIVE arrayEfBlocks(_, _, _, _)

(* Variants of the union's ef that a property of it has to tell from it:    *)
(* one that writes the member's position counted from one, and one that    *)
(* writes the first member's index before it looks the datum up.           *)
unionEfOneBased(c, datum, seed) ==
    LET name == unionDatumName(datum)
    IN  IF name \notin DOMAIN c.nameToUnionEncoder
        THEN EncErr(invalidType(c.allowedNames, name), << >>)
        ELSE LET ue == c.nameToUnionEncoder[name]
                 i == intEncoder(Int32(ue.index + 1))
                 m == Ef(ue.c, datum, seed)
             IN IF m.err # NoErr THEN EncErr(newEncoderError("union", m.err), i.w \o m.w)
                ELSE EncOk(i.w \o m.w)

unionEfWritesThenLooksUp(c, datum, seed) ==
    LET name == unionDatumName(datum)
    IN  IF name \notin DOMAIN c.nameToUnionEncoder
        THEN EncErr(invalidType(c.allowedNames, name), intEncoder(Int32(0)).w)
        ELSE LET ue == c.nameToUnionEncoder[name]
                 i == intEncoder(Int32(ue.index))
                 m == Ef(ue.c, datum, seed)
             IN IF m.err # NoErr THEN EncErr(newEncoderError("union", m.err), i.w \o m.w)
                ELSE EncOk(i.w \o m.w)

unionEf(c, datum, seed) ==
    LET name == unionDatumName(datum)
    IN  IF name \notin DOMAIN c.nameToUnionEncoder
        THEN EncErr(invalidType(c.allowedNames, name), << >>)
        ELSE LET ue == c.nameToUnionEncoder[name]
                 i == intEncoder(Int32(ue.index))
                 m == Ef(ue.c, datum, seed)
             IN IF m.err # NoErr THEN EncErr(newEncoderError("union", m.err), i.w \o m.w)
                ELSE EncOk(i.w \o m.w)

(* The enum's ef writing the one-based position of the symbol.             *)
enumEfOneBased(c, datum) ==
    IF datum.k \notin {"Enum", "string"}
    THEN EncErr(Err("enum", "expected: Enum or string"), << >>)
    ELSE LET someString == IF datum.k = "Enum" THEN datum.Value ELSE datum.v
         IN IF \E idx \in DOMAIN c.symtab : c.symtab[idx] = someString
            THEN LET idx == CHOOSE i \in DOMAIN c.symtab :
                                /\ c.symtab[i] = someString
                                /\ \A j \in DOMAIN c.symtab : c.symtab[j] = someString => i <= j
                 IN EncOk(longEncoder(Int64(idx)).w)
            ELSE EncErr(Err("enum", "symbol not defined"), << >>)

enumEf(c, datum) ==
    IF datum.k \notin {"Enum", "string"}
    THEN EncErr(Err("enum", "expected: Enum or string"), << >>)
    ELSE LET someString == IF datum.k = "Enum" THEN datum.Value ELSE datum.v
         IN IF \E idx \in DOMAIN c.symtab : c.symtab[idx] = someString
            THEN LET idx == CHOOSE i \in DOMAIN c.symtab :
                                /\ c.symtab[i] = someString
                                /\ \A j \in DOMAIN c.symtab : c.symtab[j] = someString => i <= j
                 IN EncOk(longEncoder(Int64(idx - 1)).w)
            ELSE EncErr(Err("enum", "symbol not defined"), << >>)

fixedEf(c, datum) ==
    IF datum.k # "Fixed" THEN EncErr(Err("fixed", "expected: Fixed"), << >>)
    ELSE IF Len(datum.Value) # c.size THEN EncErr(Err("fixed", "expected: size bytes"), << >>)
    ELSE EncOk(datum.Value)

(* The loop of the record's ef over someRecord.Fields, from field idx on.  *)
recordEfFields(c, fields, idx, seed) ==
    IF idx > Len(fields) THEN EncOk(<< >>)
    ELSE LET field == fields[idx]
             value == IF field.Datum.k # "nil" THEN field.Datum ELSE field.defval
         IN IF field.Datum.k = "nil" /\ ~field.hasDefault
            THEN EncErr(Err("record", "field has no data and no default set"), << >>)
            ELSE IF idx > Len(c.fieldCodecs)
                 THEN EncErr(Panic("index out of range"), << >>)
            ELSE LET e == Ef(c.fieldCodecs[idx], value, seed)
                     more == recordEfFields(c, fields, idx + 1, seed)
                 IN IF e.err # NoErr THEN EncErr(newEncoderError("record", e.err), e.w)
                    ELSE [err |-> more.err, w |-> e.w \o more.w]

recordEf(c, datum, seed) ==
    IF datum.k # "*Record" THEN EncErr(Err("record", "expected: Record"), << >>)
    ELSE IF datum.Name # c.recordTemplate.Name
         THEN EncErr(Err("record", "expected: name; received: other name"), << >>)
    ELSE recordEfFields(c, datum.Fields, 1, seed)

(* The range loop of the map's ef over the entries of dict, keys left.     *)
mapEfEntries(c, dict, keys, seed) ==
    IF keys = << >> THEN EncOk(<< >>)
    ELSE LET key == stringEncoder(GoString(Head(keys)))
             val == Ef(c.valuesCodec, dict[Head(keys)], seed)
             more == mapEfEntries(c, dict, Tail(keys), seed)
         IN IF val.err # NoErr THEN EncErr(newEncoderError("map", val.err), key.w \o val.w)
            ELSE [err |-> more.err, w |-> key.w \o val.w \o more.w]

(* The bytes of the sequences of ss one after the other.                   *)
RECURSIVE ConcatAll(_)
ConcatAll(ss) == IF ss = << >> THEN << >> ELSE Head(ss) \o ConcatAll(Tail(ss))

(* The map's ef writing every entry as a block of its own.                 *)
mapEfBlockPerEntry(c, datum, seed) ==
    IF ~IsMap(datum) THEN EncErr(Err("map", "expected: map[string]interface{}"), << >>)
    ELSE LET dict == datum.v
             keys == MapRange(dict, seed)
             entries == mapEfEntries(c, dict, keys, seed)
             Entry(i) == mapEfEntries(c, dict, <<keys[i]>>, seed).w
         IN IF entries.err # NoErr THEN EncErr(entries.err, << >>)
            ELSE EncOk(ConcatAll([i \in DOMAIN keys |-> longEncoder(Int64(1)).w \o Entry(i)])
                       \o longEncoder(Int64(0)).w)

mapEf(c, datum, seed) ==
    IF ~IsMap(datum) THEN EncErr(Err("map", "expected: map[string]interface{}"), << >>)
    ELSE LET dict == datum.v
             n == Cardinality(DOMAIN dict)
             count == IF n > 0 THEN longEncoder(Int64(n)).w ELSE << >>
             entries == mapEfEntries(c, dict, MapRange(dict, seed), seed)
         IN IF n > 0 /\ entries.err # NoErr THEN EncErr(entries.err, count \o entries.w)
            ELSE EncOk(count \o (IF n > 0 THEN entries.w ELSE << >>) \o longEncoder(Int64(0)).w)

arrayEfItems(c, items, seed) ==
    IF items = << >> THEN EncOk(<< >>)
    ELSE LET e == Ef(c.valuesCodec, Head(items), seed)
             more == arrayEfItems(c, Tail(items), seed)
         IN IF e.err # NoErr THEN EncErr(newEncoderError("array", e.err), e.w)
            ELSE [err |-> more.err, w |-> e.w \o more.w]

(* The array's ef writing every item in one block, whatever their number.  *)
arrayEfOneBlock(c, someArray, leftIndex, seed) ==
    IF leftIndex >= Len(someArray) THEN EncOk(longEncoder(Int64(0)).w)
    ELSE LET count == longEncoder(Int64(Len(someArray))).w
             block == arrayEfItems(c, someArray, seed)
         IN IF block.err # NoErr THEN EncErr(block.err, count \o block.w)
            ELSE EncOk(count \o block.w \o longEncoder(Int64(0)).w)

(* The block loop of the array's ef from leftIndex (counted from 0) on.    *)
arrayEfBlocks(c, someArray, leftIndex, seed) ==
    IF leftIndex >= Len(someArray) THEN EncOk(longEncoder(Int64(0)).w)
    ELSE LET rightIndex == IF leftIndex + itemsPerArrayBlock > Len(someArray)
                           THEN Len(someArray) ELSE leftIndex + itemsPerArrayBlock
             items == SubSeq(someArray, leftIndex + 1, rightIndex)
             count == longEncoder(Int64(Len(items))).w
             block == arrayEfItems(c, items, seed)
             more == arrayEfBlocks(c, someArray, leftIndex + itemsPerArrayBlock, seed)
         IN IF block.err # NoErr THEN EncErr(block.err, count \o block.w)
            ELSE [err |-> more.err, w |-> count \o block.w \o more.w]

arrayEf(c, datum, seed) ==
    IF ~IsArray(datum) THEN EncErr(Err("array", "expected: []interface{}"), << >>)
    ELSE arrayEfBlocks(c, datum.v, 0, seed)

Ef(c, datum, seed) ==
    CASE c.c = "null" -> nullEncoder(datum)
      [] c.c = "boolean" -> booleanEncoder(datum)
      [] c.c = "int" -> intEncoder(datum)
      [] c.c = "long" -> longEncoder(datum)
      [] c.c = "float" -> floatEncoder(datum)
      [] c.c = "double" -> doubleEncoder(datum)
      [] c.c = "bytes" -> bytesEncoder(datum)
      [] c.c = "string" -> stringEncoder(datum)
      [] c.c = "union" -> unionEf(c, datum, seed)
      [] c.c = "enum" -> enumEf(c, datum)
      [] c.c = "fixed" -> fixedEf(c, datum)
      [] c.c = "record" -> recordEf(c, datum, seed)
      [] c.c = "map" -> mapEf(c, datum, seed)
      [] c.c = "array" -> arrayEf(c, datum, seed)

---------------------------------------------------------------------------
(* The ef closures of a record, a map and an array codec assign every      *)
(* error they get to err, a variable of the builder call that made the     *)
(* codec, and test it in the next statement: one variable for all the      *)
(* calls of the codec.  A call of such an ef, as the steps it takes: an    *)
(* "assign" step runs one encoder on the call's stream and assigns what it *)
(* returns to err; a "return" step leaves the call with an error that no   *)
(* shared variable holds.  After an assign step the call tests err and     *)
(* returns it wrapped when it is not nil.                                  *)
ReturnStep(err, w) == [kind |-> "return", err |-> err, w |-> w]
(* A panic of the encoder unwinds the call before the assignment.          *)
AssignStep(e) ==
    IF IsPanic(e.err) THEN ReturnStep(e.err, e.w)
    ELSE [kind |-> "assign", err |-> e.err, w |-> e.w]

RECURSIVE recordEfSteps(_, _, _, _)
recordEfSteps(c, fields, idx, seed) ==
    IF idx > Len(fields) THEN <<ReturnStep(NoErr, << >>)>>
    ELSE IF fields[idx].Datum.k = "nil" /\ ~fields[idx].hasDefault
         THEN <<ReturnStep(Err("record", "field has no data and no default set"), << >>)>>
    ELSE IF idx > Len(c.fieldCodecs) THEN <<ReturnStep(Panic("index out of range"), << >>)>>
    ELSE <<AssignStep(Ef(c.fieldCodecs[idx],
                         IF fields[idx].Datum.k # "nil" THEN fields[idx].Datum
                         ELSE fields[idx].defval, seed))>>
         \o recordEfSteps(c, fields, idx + 1, seed)

RECURSIVE mapEfSteps(_, _, _, _)
mapEfSteps(c, dict, keys, seed) ==
    IF keys = << >> THEN <<AssignStep(longEncoder(Int64(0))), ReturnStep(NoErr, << >>)>>
    ELSE <<AssignStep(stringEncoder(GoString(Head(keys)))),
           AssignStep(Ef(c.valuesCodec, dict[Head(keys)], seed))>>
         \o mapEfSteps(c, dict, Tail(keys), seed)

RECURSIVE arrayEfSteps(_, _, _, _)
arrayEfSteps(c, someArray, leftIndex, seed) ==
    IF leftIndex >= Len(someArray) THEN <<ReturnStep(NoErr, longEncoder(Int64(0)).w)>>
    ELSE LET Block(items) ==
                <<AssignStep(longEncoder(Int64(Len(items))))>>
                \o [i \in DOMAIN items |-> AssignStep(Ef(c.valuesCodec, items[i], seed))]
         IN Block(SubSeq(someArray, leftIndex + 1,
                         IF leftIndex + itemsPerArrayBlock > Len(someArray)
                         THEN Len(someArray) ELSE leftIndex + itemsPerArrayBlock))
            \o arrayEfSteps(c, someArray, leftIndex + itemsPerArrayBlock, seed)

(* The steps of c.ef(w, datum).  The ef of any other codec shares nothing  *)
(* with other calls and is one step.                                       *)
EfSteps(c, datum, seed) ==
    CASE c.c = "record" ->
            IF datum.k # "*Record" THEN <<ReturnStep(Err("record", "expected: Record"), << >>)>>
            ELSE IF datum.Name # c.recordTemplate.Name
                 THEN <<ReturnStep(Err("record", "expected: name; received: other name"),
                                   << >>)>>
            ELSE recordEfSteps(c, datum.Fields, 1, seed)
      [] c.c = "map" ->
            IF ~IsMap(datum)
            THEN <<ReturnStep(Err("map", "expected: map[string]interface{}"), << >>)>>
            ELSE IF Cardinality(DOMAIN datum.v) > 0
                 THEN <<AssignStep(longEncoder(Int64(Cardinality(DOMAIN datum.v))))>>
                      \o mapEfSteps(c, datum.v, MapRange(datum.v, seed), seed)
            ELSE mapEfSteps(c, datum.v, << >>, seed)
      [] c.c = "array" ->
            IF ~IsArray(datum)
            THEN <<ReturnStep(Err("array", "expected: []interface{}"), << >>)>>
            ELSE arrayEfSteps(c, datum.v, 0, seed)
      [] OTHER -> <<ReturnStep(Ef(c, datum, seed).err, Ef(c, datum, seed).w)>>

(* One call running its steps with no other call between them: what it    *)
(* returns, what it wrote, and what it left in err.                        *)
RECURSIVE RunSteps(_, _, _, _)
RunSteps(c, steps, w, err) ==
    IF Head(steps).kind = "return"
    THEN [err |-> Head(steps).err, w |-> w \o Head(steps).w, shared |-> err]
    ELSE IF Head(steps).err # NoErr
         THEN [err |-> newEncoderError(c.c, Head(steps).err), w |-> w \o Head(steps).w,
               shared |-> Head(steps).err]
    ELSE RunSteps(c, Tail(steps), w \o Head(steps).w, Head(steps).err)

---------------------------------------------------------------------------
(* Binary decode: c.df(r).  The result is the error, the value v and the   *)
(* rest of the stream: what the call left unread.                          *)
DecOk(v, rest) == [err |-> NoErr, v |-> v, rest |-> rest]
DecErr(err, rest) == [err |-> err, v |-> Nil, rest |-> rest]

RECURSIVE Df(_, _)
RECURSIVE recordDfFields(_, _, _, _)
RECURSIVE mapDfEntries(_, _, _, _)
RECURSIVE mapDfBlocks(_, _, _, _)
RECURSIVE arrayDfItems(_, _, _, _)
RECURSIVE arrayDfBlocks(_, _, _, _)

(* A variant of the union's df that a property of it has to tell from it:  *)
(* it takes index 0 for out of range.                                      *)
unionDfFromOne(c, r) ==
    LET Read(i) ==
            IF i.err # NoErr THEN DecErr(newEncoderError("union", i.err), i.rest)
            ELSE IF i.v.v <= 0 \/ i.v.v >= Len(c.indexToDecoder)
                 THEN DecErr(Err("union", "index must be between 0 and len-1"), i.rest)
            ELSE Df(c.indexToDecoder[i.v.v + 1], i.rest)
    IN Read(intDecoder(r))

unionDf(c, r) ==
    LET Read(i) ==
            IF i.err # NoErr THEN DecErr(newEncoderError("union", i.err), i.rest)
            ELSE IF i.v.v < 0 \/ i.v.v >= Len(c.indexToDecoder)
                 THEN DecErr(Err("union", "index must be between 0 and len-1"), i.rest)
            ELSE Df(c.indexToDecoder[i.v.v + 1], i.rest)
    IN Read(intDecoder(r))

enumDf(c, r) ==
    LET Read(someValue) ==
            IF someValue.err # NoErr
            THEN DecErr(newDecoderError("enum", someValue.err), someValue.rest)
            ELSE IF someValue.v.v < 0 \/ someValue.v.v >= Len(c.symtab)
                 THEN DecErr(Err("enum", "index must be between 0 and len-1"), someValue.rest)
            ELSE DecOk(Enum(c.nm.n, c.symtab[someValue.v.v + 1]), someValue.rest)
    IN Read(longDecoder(r))

(* r.Read(buf) of a stream held in memory: up to len(buf) bytes, and       *)
(* io.EOF when bytes are asked for and none is left.                       *)
fixedDf(c, r) ==
    LET n == IF Len(r) < c.size THEN Len(r) ELSE c.size
    IN  IF c.size > 0 /\ r = << >> THEN DecErr(Err("fixed", "EOF"), r)
        ELSE IF n < c.size THEN DecErr(Err("fixed", "buffer underrun"), << >>)
        ELSE DecOk(Fixed(c.nm.n, SubSeq(r, 1, n)), SubSeq(r, n + 1, Len(r)))

(* The loop of the record's df over fieldCodecs, from field idx on.        *)
recordDfFields(c, someRecord, idx, r) ==
    LET Read(value) ==
            IF value.err # NoErr
            THEN DecErr(newDecoderError("record", value.err), value.rest)
            ELSE recordDfFields(c, [someRecord EXCEPT !.Fields[idx].Datum = value.v],
                                idx + 1, value.rest)
    IN IF idx > Len(c.fieldCodecs) THEN DecOk(someRecord, r)
       ELSE Read(Df(c.fieldCodecs[idx], r))

recordDf(c, r) == recordDfFields(c, c.recordTemplate, 1, r)

(* The inner loop of the map's df: i entries left in the block.            *)
mapDfEntries(c, i, data, r) ==
    LET ReadValue(someValue, datum) ==
            IF datum.err # NoErr
            THEN [err |-> datum.err, data |-> data, rest |-> datum.rest]
            ELSE mapDfEntries(c, i - 1, MapSet(data, someValue.v.v, datum.v), datum.rest)
        ReadKey(someValue) ==
            IF someValue.err # NoErr
            THEN [err |-> newDecoderError("map", someValue.err), data |-> data,
                  rest |-> someValue.rest]
            ELSE ReadValue(someValue, Df(c.valuesCodec, someValue.rest))
    IN IF i = 0 THEN [err |-> NoErr, data |-> data, rest |-> r]
       ELSE ReadKey(stringDecoder(r))

(* The outer loop of the map's df, entered with the block count read.      *)
mapDfBlocks(c, blockCount, data, r) ==
    LET ReadCount(someValue) ==
            IF someValue.err # NoErr
            THEN DecErr(newDecoderError("map", someValue.err), someValue.rest)
            ELSE mapDfBlocks(c, someValue.v.v, someValue.data, someValue.rest)
        ReadBlock(block) ==
            IF block.err # NoErr THEN DecErr(block.err, block.rest)
            ELSE ReadCount([data |-> block.data] @@ longDecoder(block.rest))
        ReadSize(size) ==
            IF size.err # NoErr THEN DecErr(newDecoderError("map", size.err), size.rest)
            ELSE ReadBlock(mapDfEntries(c, -blockCount, data, size.rest))
    IN IF blockCount = 0 THEN DecOk(GoMap(data), r)
       ELSE IF blockCount < 0 THEN ReadSize(longDecoder(r))
       ELSE ReadBlock(mapDfEntries(c, blockCount, data, r))

mapDf(c, r) ==
    LET Read(someValue) ==
            IF someValue.err # NoErr
            THEN DecErr(newDecoderError("map", someValue.err), someValue.rest)
            ELSE mapDfBlocks(c, someValue.v.v, << >>, someValue.rest)
    IN Read(longDecoder(r))

(* The inner loop of the array's df: i items left in the block.  data is   *)
(* the slice so far, nil until the first append.                           *)
arrayDfItems(c, i, data, r) ==
    LET Read(datum) ==
            IF datum.err # NoErr
            THEN [err |-> newDecoderError("array", datum.err), data |-> data,
                  rest |-> datum.rest]
            ELSE arrayDfItems(c, i - 1, Slice(Append(data.v, datum.v)), datum.rest)
    IN IF i = 0 THEN [err |-> NoErr, data |-> data, rest |-> r]
       ELSE Read(Df(c.valuesCodec, r))

(* The array's df taking the long after a negative count for the first     *)
(* item of the block instead of discarding it.                             *)
arrayDfBlocksSizeKept(c, blockCount, data, r) ==
    LET ReadCount(someValue) ==
            IF someValue.err # NoErr
            THEN DecErr(newDecoderError("array", someValue.err), someValue.rest)
            ELSE arrayDfBlocks(c, someValue.v.v, someValue.data, someValue.rest)
        ReadBlock(block) ==
            IF block.err # NoErr THEN DecErr(block.err, block.rest)
            ELSE ReadCount([data |-> block.data] @@ longDecoder(block.rest))
    IN IF blockCount = 0 THEN DecOk(data, r)
       ELSE IF blockCount < 0 THEN ReadBlock(arrayDfItems(c, -blockCount, data, r))
       ELSE ReadBlock(arrayDfItems(c, blockCount, data, r))

(* The outer loop of the array's df, entered with the block count read.    *)
arrayDfBlocks(c, blockCount, data, r) ==
    LET ReadCount(someValue) ==
            IF someValue.err # NoErr
            THEN DecErr(newDecoderError("array", someValue.err), someValue.rest)
            ELSE arrayDfBlocks(c, someValue.v.v, someValue.data, someValue.rest)
        ReadBlock(block) ==
            IF block.err # NoErr THEN DecErr(block.err, block.rest)
            ELSE ReadCount([data |-> block.data] @@ longDecoder(block.rest))
        ReadSize(size) ==
            IF size.err # NoErr THEN DecErr(newDecoderError("array", size.err), size.rest)
            ELSE ReadBlock(arrayDfItems(c, -blockCount, data, size.rest))
    IN IF blockCount = 0 THEN DecOk(data, r)
       ELSE IF blockCount < 0 THEN ReadSize(longDecoder(r))
       ELSE ReadBlock(arrayDfItems(c, blockCount, data, r))

arrayDf(c, r) ==
    LET Read(someValue) ==
            IF someValue.err # NoErr
            THEN DecErr(newDecoderError("array", someValue.err), someValue.rest)
            ELSE arrayDfBlocks(c, someValue.v.v, NilSlice, someValue.rest)
    IN Read(longDecoder(r))

Df(c, r) ==
    CASE c.c = "null" -> nullDecoder(r)
      [] c.c = "boolean" -> booleanDecoder(r)
      [] c.c = "int" -> intDecoder(r)
      [] c.c = "long" -> longDecoder(r)
      [] c.c = "float" -> floatDecoder(r)
      [] c.c = "double" -> doubleDecoder(r)
      [] c.c = "bytes" -> bytesDecoder(r)
      [] c.c = "string" -> stringDecoder(r)
      [] c.c = "union" -> unionDf(c, r)
      [] c.c = "enum" -> enumDf(c, r)
      [] c.c = "fixed" -> fixedDf(c, r)
      [] c.c = "record" -> recordDf(c, r)
      [] c.c = "map" -> mapDf(c, r)
      [] c.c = "array" -> arrayDf(c, r)

---------------------------------------------------------------------------
(* Avro-JSON encode: c.jef(w, datum).  The result is the error and the     *)
(* JSON documents w written to the stream.                                 *)
newJSONEncoder(goType, datum) == [err |-> NoErr, w |-> <<Marshal(datum)>>]
nullJSONEncoder(datum) == newJSONEncoder("nil", datum)
booleanJSONEncoder(datum) == newJSONEncoder("bool", datum)
intJSONEncoder(datum) ==
    IF datum.k # "int32" THEN EncErr(Err("int", "expected: int32"), << >>)
    ELSE newJSONEncoder("int32", datum)
longJSONEncoder(datum) ==
    IF datum.k # "int64" THEN EncErr(Err("long", "expected: int64"), << >>)
    ELSE newJSONEncoder("int64", datum)
floatJSONEncoder(datum) == EncErr(Err("float", "expected: float32"), << >>)
doubleJSONEncoder(datum) ==
    IF datum.k # "float64" THEN EncErr(Err("float", "expected: float64"), << >>)
    ELSE newJSONEncoder("float64", JSONNumber(datum.v))
bytesJSONEncoder(datum) ==
    IF datum.k # "[]uint8" THEN EncErr(Err("bytes", "expected: []byte"), << >>)
    ELSE newJSONEncoder("[]uint8", GoString(datum.v))
stringJSONEncoder(datum) == newJSONEncoder("string", datum)

RECURSIVE Jef(_, _)
RECURSIVE recordJefFields(_, _, _, _)
RECURSIVE mapJefEntries(_, _, _, _)
RECURSIVE arrayJefItems(_, _, _)

unionJef(c, datum) ==
    LET typeName == unionDatumName(datum)
    IN  IF typeName \notin DOMAIN c.nameToUnionEncoder
        THEN EncErr(Err("union", "union json encode error: invalid type"), << >>)
        ELSE LET ue == c.nameToUnionEncoder[typeName]
                 buff == Jef(ue.c, datum)
                 value == JSONDecoderDecode(buff.w, "interface{}")
                 tmpDatum == GoMap(MapOf(<< <<ue.tn, value.v>> >>))
             IN IF typeName = s_null
                THEN IF buff.err # NoErr
                     THEN EncErr(newEncoderError("union", buff.err), buff.w)
                     ELSE EncOk(buff.w)
                ELSE IF buff.err # NoErr THEN EncErr(newEncoderError("union", buff.err), << >>)
                ELSE IF value.err # NoErr THEN EncErr(newEncoderError("union", value.err), << >>)
                ELSE EncOk(<<Marshal(tmpDatum)>>)

enumJef(c, datum) ==
    IF datum.k # "Enum" THEN EncErr(Err("enum", "expected: Enum"), << >>)
    ELSE newJSONEncoder("string", GoString(datum.Value))

fixedJef(c, datum) ==
    IF datum.k # "Fixed" THEN EncErr(Err("fixed", "expected: Fixed"), << >>)
    ELSE IF Len(datum.Value) # c.size THEN EncErr(Err("fixed", "expected: size bytes"), << >>)
    ELSE newJSONEncoder("string", GoString(datum.Value))

(* The loop of the record's jef over someRecord.Fields, from field idx on: *)
(* the error and the orderedMap built.                                     *)
recordJefFields(c, fields, idx, orderedMap) ==
    IF idx > Len(fields) THEN [err |-> NoErr, orderedMap |-> orderedMap]
    ELSE LET field == fields[idx]
             value == IF field.Datum.k # "nil" THEN field.Datum ELSE field.defval
             buff == Jef(c.fieldCodecs[idx], value)
             jsonValue == JSONDecoderDecode(buff.w, "interface{}")
             n == newName(field.Name, nullNamespace)
         IN IF field.Datum.k = "nil" /\ ~field.hasDefault
            THEN [err |-> Err("record", "field has no data and no default set"),
                  orderedMap |-> orderedMap]
            ELSE IF idx > Len(c.fieldCodecs)
                 THEN [err |-> Panic("index out of range"), orderedMap |-> orderedMap]
            ELSE IF buff.err # NoErr
                 THEN [err |-> newEncoderError("record", buff.err), orderedMap |-> orderedMap]
            ELSE IF jsonValue.err # NoErr
                 THEN [err |-> newEncoderError("record", jsonValue.err), orderedMap |-> orderedMap]
            ELSE IF n.err # NoErr
                 THEN [err |-> newEncoderError("record", n.err), orderedMap |-> orderedMap]
            ELSE recordJefFields(c, fields, idx + 1,
                                 Append(orderedMap, KeyVal(shortname(n.n), jsonValue.v)))

recordJef(c, datum) ==
    IF datum.k # "*Record" THEN EncErr(Err("record", "expected: Record"), << >>)
    ELSE IF datum.Name # c.recordTemplate.Name
         THEN EncErr(Err("record", "expected: name; received: other name"), << >>)
    ELSE LET f == recordJefFields(c, datum.Fields, 1, << >>)
         IN IF f.err # NoErr THEN EncErr(f.err, << >>)
            ELSE EncOk(<<Marshal(OrderedMap(f.orderedMap))>>)

(* The range loop of the map's jef: the error and the jsonDict built.  The *)
(* order of the loop only picks which of several errors is returned; the   *)
(* loop is modelled in key order.                                          *)
mapJefEntries(c, dict, keys, jsonDict) ==
    IF keys = << >> THEN [err |-> NoErr, jsonDict |-> jsonDict]
    ELSE LET buff == Jef(c.valuesCodec, dict[Head(keys)])
             jsonObj == JSONDecoderDecode(buff.w, "interface{}")
         IN IF buff.err # NoErr
            THEN [err |-> newEncoderError("map", buff.err), jsonDict |-> jsonDict]
            ELSE IF jsonObj.err # NoErr
                 THEN [err |-> newEncoderError("map", jsonObj.err), jsonDict |-> jsonDict]
            ELSE mapJefEntries(c, dict, Tail(keys), MapSet(jsonDict, Head(keys), jsonObj.v))

mapJef(c, datum) ==
    IF ~IsMap(datum) THEN EncErr(Err("map", "expected: map[string]interface{}"), << >>)
    ELSE LET e == mapJefEntries(c, datum.v, SortedKeys(DOMAIN datum.v), << >>)
         IN IF e.err # NoErr THEN EncErr(e.err, << >>)
            ELSE EncOk(<<Marshal(GoMap(e.jsonDict))>>)

(* The loop of the array's jef: the error and the avroArray built, a nil   *)
(* slice until the first append.                                           *)
arrayJefItems(c, items, avroArray) ==
    IF items = << >> THEN [err |-> NoErr, avroArray |-> avroArray]
    ELSE LET buff == Jef(c.valuesCodec, Head(items))
             jsonObj == JSONDecoderDecode(buff.w, "interface{}")
         IN IF buff.err # NoErr
            THEN [err |-> newEncoderError("array", buff.err), avroArray |-> avroArray]
            ELSE IF jsonObj.err # NoErr
                 THEN [err |-> newEncoderError("array", jsonObj.err), avroArray |-> avroArray]
            ELSE arrayJefItems(c, Tail(items), Slice(Append(avroArray.v, jsonObj.v)))

arrayJef(c, datum) ==
    IF ~IsArray(datum) THEN EncErr(Err("array", "expected: []interface{}"), << >>)
    ELSE LET a == arrayJefItems(c, datum.v, NilSlice)
         IN IF a.err # NoErr THEN EncErr(a.err, << >>)
            ELSE EncOk(<<Marshal(a.avroArray)>>)

Jef(c, datum) ==
    CASE c.c = "null" -> nullJSONEncoder(datum)
      [] c.c = "boolean" -> booleanJSONEncoder(datum)
      [] c.c = "int" -> intJSONEncoder(datum)
      [] c.c = "long" -> longJSONEncoder(datum)
      [] c.c = "float" -> floatJSONEncoder(datum)
      [] c.c = "double" -> doubleJSONEncoder(datum)
      [] c.c = "bytes" -> bytesJSONEncoder(datum)
      [] c.c = "string" -> stringJSONEncoder(datum)
      [] c.c = "union" -> unionJef(c, datum)
      [] c.c = "enum" -> enumJef(c, datum)
      [] c.c = "fixed" -> fixedJef(c, datum)
      [] c.c = "record" -> recordJef(c, datum)
      [] c.c = "map" -> mapJef(c, datum)
      [] c.c = "array" -> arrayJef(c, datum)

(* The record's jef assigns the error of every field's JSONEncode to the   *)
(* same variable: what a call leaves in it.                                *)
RECURSIVE recordJefErr(_, _, _, _)
recordJefErr(c, fields, idx, err) ==
    IF idx > Len(fields) \/ idx > Len(c.fieldCodecs) THEN err
    ELSE IF fields[idx].Datum.k = "nil" /\ ~fields[idx].hasDefault THEN err
    ELSE LET Assigned(e) ==
                IF e.err # NoErr THEN e.err ELSE recordJefErr(c, fields, idx + 1, e.err)
         IN Assigned(Jef(c.fieldCodecs[idx],
                         IF fields[idx].Datum.k # "nil" THEN fields[idx].Datum
                         ELSE fields[idx].defval))

(* What a call of c.jef leaves in the err of codec c.                      *)
JefErrAfter(c, datum, err) ==
    IF c.c = "record" /\ datum.k = "*Record" /\ datum.Name = c.recordTemplate.Name
    THEN recordJefErr(c, datum.Fields, 1, err)
    ELSE err

---------------------------------------------------------------------------
(* Avro-JSON decode: c.jdf(r) on a stream r of JSON documents.  The result *)
(* is the error and the value v.                                           *)
JDecOk(v) == [err |-> NoErr, v |-> v]
JDecErr(err) == [err |-> err, v |-> Nil]
newJSONDecoder(goType, r) ==
    LET d == JSONDecoderDecode(r, "interface{}")
    IN IF d.err # NoErr THEN JDecErr(newDecoderError(goType, d.err)) ELSE JDecOk(d.v)
nullJSONDecoder(r) == newJSONDecoder("nil", r)
booleanJSONDecoder(r) == newJSONDecoder("boolean", r)
(* Decimal digits compared as numbers: a <= b.                             *)
RECURSIVE DigitsLexLE(_, _)
DigitsLexLE(a, b) ==
    IF a = << >> THEN TRUE
    ELSE IF Head(a) # Head(b) THEN Head(a) < Head(b)
    ELSE DigitsLexLE(Tail(a), Tail(b))
DigitsLE(a, b) == Len(a) < Len(b) \/ (Len(a) = Len(b) /\ DigitsLexLE(a, b))

(* The number a sequence of at most nine decimal digits writes.            *)
RECURSIVE DecValue(_)
DecValue(digits) ==
    IF digits = << >> THEN 0
    ELSE 10 * DecValue(SubSeq(digits, 1, Len(digits) - 1)) + digits[Len(digits)]

MaxInt64Digits == <<9, 2, 2, 3, 3, 7, 2, 0, 3, 6, 8, 5, 4, 7, 7, 5, 8, 0, 7>>
MinInt64Digits == <<9, 2, 2, 3, 3, 7, 2, 0, 3, 6, 8, 5, 4, 7, 7, 5, 8, 0, 8>>

(* json.Number.Int64, that is strconv.ParseInt(s, 10, 64): a syntax error  *)
(* with the value 0 for a text that is not all digits, a range error with  *)
(* the nearest int64 for a number outside of int64, else the number.       *)
NumberInt64(n) ==
    IF ~IsText(n) THEN [err |-> NoErr, v |-> Int64(n.v)]
    ELSE IF n.frac # << >>
         THEN [err |-> Err("strconv.ParseInt", "invalid syntax"), v |-> Int64(0)]
    ELSE IF ~DigitsLE(n.digits, IF n.neg THEN MinInt64Digits ELSE MaxInt64Digits)
         THEN [err |-> Err("strconv.ParseInt", "value out of range"),
               v |-> Int64Text(n.neg, IF n.neg THEN MinInt64Digits ELSE MaxInt64Digits)]
    ELSE IF Len(n.digits) <= 9
         THEN [err |-> NoErr,
               v |-> Int64(IF n.neg THEN -DecValue(n.digits) ELSE DecValue(n.digits))]
    ELSE [err |-> NoErr, v |-> Int64Text(n.neg, n.digits)]

(* The low 32 bits of the number the digits write, as two halves of 16     *)
(* bits, the high half first.                                              *)
RECURSIVE Low32(_)
Low32(digits) ==
    IF digits = << >> THEN <<0, 0>>
    ELSE LET m == Low32(SubSeq(digits, 1, Len(digits) - 1))
             l == m[2] * 10 + digits[Len(digits)]
         IN <<(m[1] * 10 + l \div 65536) % 65536, l % 65536>>

(* The conversion int32(someInt) of an int64: it keeps the low 32 bits, in *)
(* two's complement.                                                       *)
ToInt32(someInt) ==
    IF ~IsText(someInt) THEN Int32(someInt.v)
    ELSE LET m == Low32(someInt.digits)
             l == IF someInt.neg THEN (65536 - m[2]) % 65536 ELSE m[2]
             h == IF someInt.neg
                  THEN (65535 - m[1] + (IF m[2] = 0 THEN 1 ELSE 0)) % 65536
                  ELSE m[1]
         IN Int32(IF h >= 32768 THEN (h - 65536) * 65536 + l ELSE h * 65536 + l)

intJSONDecoder(r) ==
    LET someValue == newJSONDecoder("int", r)
        Convert(someInt) ==
            IF someInt.err # NoErr THEN JDecErr(Err("int", "expected int64"))
            ELSE JDecOk(ToInt32(someInt.v))
    IN  IF someValue.err # NoErr THEN someValue
        ELSE IF someValue.v.k # "json.Number"
             THEN JDecErr(Err("int", "expected json.Number"))
        ELSE Convert(NumberInt64(someValue.v))
longJSONDecoder(r) ==
    LET someValue == newJSONDecoder("long", r)
    IN  IF someValue.err # NoErr THEN someValue
        ELSE IF someValue.v.k # "json.Number"
             THEN JDecErr(Err("long", "expected json.Number"))
        ELSE NumberInt64(someValue.v)
floatJSONDecoder(r) ==
    LET someValue == newJSONDecoder("float", r)
    IN  IF someValue.err # NoErr THEN someValue
        ELSE JDecErr(Err("float", "expected json.Number"))
doubleJSONDecoder(r) ==
    LET someValue == newJSONDecoder("double", r)
    IN  IF someValue.err # NoErr THEN someValue
        ELSE IF someValue.v.k # "json.Number"
             THEN JDecErr(Err("double", "expected json.Number"))
        ELSE IF IsText(someValue.v)
             THEN JDecOk(Float64Text(someValue.v.neg, someValue.v.digits, someValue.v.frac))
        ELSE JDecOk(Float64(someValue.v.v))
bytesJSONDecoder(r) ==
    LET someValue == newJSONDecoder("bytes", r)
    IN  IF someValue.err # NoErr THEN someValue
        ELSE IF someValue.v.k # "string" THEN JDecErr(Err("bytes", "expected string"))
        ELSE JDecOk(GoBytes(someValue.v.v))
stringJSONDecoder(r) == newJSONDecoder("string", r)

RECURSIVE Jdf(_, _, _)
RECURSIVE recordJdfEntries(_, _, _, _, _)
RECURSIVE mapJdfEntries(_, _, _, _, _)
RECURSIVE arrayJdfItems(_, _, _, _)

unionJdf(c, r, seed) ==
    LET d == JSONDecoderDecode(r, "interface{}")
        keys == MapRange(d.v.v, seed)
        (* the first key the range loop visits, and its value *)
        typeName == IF d.v.k = "nil" THEN s_null
                    ELSE IF keys = << >> THEN s_empty ELSE keys[1]
        value == IF d.v.k = "nil" \/ keys = << >> THEN d.v ELSE d.v.v[keys[1]]
    IN  IF d.err # NoErr THEN JDecErr(newDecoderError("union", d.err))
        ELSE IF d.v.k \notin {"nil", "map[string]interface{}"}
             THEN JDecErr(Err("union", "unsupported union value"))
        ELSE IF typeName \notin DOMAIN c.nameToJSONDecoder
             THEN JDecErr(Err("union", "unknown union type"))
        ELSE Jdf(c.nameToJSONDecoder[typeName], <<Marshal(value)>>, seed)

enumJdf(c, r) ==
    LET someValue == newJSONDecoder("string", r)
    IN  IF someValue.err # NoErr THEN JDecErr(newDecoderError("enum", someValue.err))
        ELSE IF someValue.v.k # "string"
             THEN JDecErr(Panic("interface conversion: interface {} is not string"))
        ELSE JDecOk(Enum(c.nm.n, someValue.v.v))

fixedJdf(c, r) ==
    LET someValue == newJSONDecoder("string", r)
    IN  IF someValue.err # NoErr THEN JDecErr(newDecoderError("fixed", someValue.err))
        ELSE IF someValue.v.k # "[]uint8"
             THEN JDecErr(Panic("interface conversion: interface {} is not []uint8"))
        ELSE IF Len(someValue.v.v) < c.size THEN JDecErr(Err("fixed", "buffer underrun"))
        ELSE JDecOk(Fixed(c.nm.n, someValue.v.v))

(* A variant of the loop that passes over a key that names no field.       *)
RECURSIVE recordJdfEntriesSkipUnknown(_, _, _, _, _)
recordJdfEntriesSkipUnknown(c, someRecord, datum, keys, seed) ==
    IF keys = << >> THEN JDecOk(someRecord)
    ELSE LET key == Head(keys)
             b == Marshal(datum[key])
             idx == getField(someRecord, key)
             fieldDatum == Jdf(c.fieldCodecMap[someRecord.Fields[idx].Name], <<b>>, seed)
         IN IF idx = 0
            THEN recordJdfEntriesSkipUnknown(c, someRecord, datum, Tail(keys), seed)
            ELSE IF fieldDatum.err # NoErr THEN JDecErr(newDecoderError("record", fieldDatum.err))
            ELSE recordJdfEntriesSkipUnknown(c, [someRecord EXCEPT !.Fields[idx].Datum = fieldDatum.v],
                                             datum, Tail(keys), seed)

(* The range loop of the record's jdf over the keys of datum.              *)
recordJdfEntries(c, someRecord, datum, keys, seed) ==
    IF keys = << >> THEN JDecOk(someRecord)
    ELSE LET key == Head(keys)
             b == Marshal(datum[key])
             idx == getField(someRecord, key)
             fieldDatum == Jdf(c.fieldCodecMap[someRecord.Fields[idx].Name], <<b>>, seed)
         IN IF idx = 0 THEN JDecErr(Err("record", "no such field"))
            ELSE IF fieldDatum.err # NoErr THEN JDecErr(newDecoderError("record", fieldDatum.err))
            ELSE recordJdfEntries(c, [someRecord EXCEPT !.Fields[idx].Datum = fieldDatum.v],
                                  datum, Tail(keys), seed)

recordJdf(c, r, seed) ==
    LET d == JSONDecoderDecode(r, "map[string]interface{}")
    IN  IF d.err # NoErr THEN JDecErr(newDecoderError("record", d.err))
        ELSE recordJdfEntries(c, c.recordTemplate, d.v.v, MapRange(d.v.v, seed), seed)

mapJdfEntries(c, rawDatum, keys, data, seed) ==
    IF keys = << >> THEN JDecOk(GoMap(data))
    ELSE LET b == Marshal(rawDatum[Head(keys)])
             datum == Jdf(c.valuesCodec, <<b>>, seed)
         IN IF datum.err # NoErr THEN JDecErr(newDecoderError("map", datum.err))
            ELSE mapJdfEntries(c, rawDatum, Tail(keys), MapSet(data, Head(keys), datum.v), seed)

mapJdf(c, r, seed) ==
    LET d == JSONDecoderDecode(r, "map[string]interface{}")
    IN  IF d.err # NoErr THEN JDecErr(newDecoderError("map", d.err))
        ELSE mapJdfEntries(c, d.v.v, MapRange(d.v.v, seed), << >>, seed)

arrayJdfItems(c, rawJsonArray, jsonArray, seed) ==
    IF rawJsonArray = << >> THEN JDecOk(jsonArray)
    ELSE LET b == Marshal(Head(rawJsonArray))
             datum == Jdf(c.valuesCodec, <<b>>, seed)
         IN IF datum.err # NoErr THEN JDecErr(newDecoderError("array", datum.err))
            ELSE arrayJdfItems(c, Tail(rawJsonArray), Slice(Append(jsonArray.v, datum.v)), seed)

arrayJdf(c, r, seed) ==
    LET d == JSONDecoderDecode(r, "[]interface{}")
    IN  IF d.err # NoErr THEN JDecErr(newDecoderError("array", d.err))
        ELSE arrayJdfItems(c, d.v.v, NilSlice, seed)

Jdf(c, r, seed) ==
    CASE c.c = "null" -> nullJSONDecoder(r)
      [] c.c = "boolean" -> booleanJSONDecoder(r)
      [] c.c = "int" -> intJSONDecoder(r)
      [] c.c = "long" -> longJSONDecoder(r)
      [] c.c = "float" -> floatJSONDecoder(r)
      [] c.c = "double" -> doubleJSONDecoder(r)
      [] c.c = "bytes" -> bytesJSONDecoder(r)
      [] c.c = "string" -> stringJSONDecoder(r)
      [] c.c = "union" -> unionJdf(c, r, seed)
      [] c.c = "enum" -> enumJdf(c, r)
      [] c.c = "fixed" -> fixedJdf(c, r)
      [] c.c = "record" -> recordJdf(c, r, seed)
      [] c.c = "map" -> mapJdf(c, r, seed)
      [] c.c = "array" -> arrayJdf(c, r, seed)

---------------------------------------------------------------------------
(* The data the model draws from.                                          *)
MaxArrayLen == 2
MaxStream == 3
IntSamples == {-1, 0, 42, 64}
StringSamples == {s_empty, s_hi}
BytesSamples == {s_empty, <<1, 2>>, <<255>>}
MapKeySamples == {s_a, s_b}
StreamBytes == {0, 1, 2, 3, 4, 6}
Seeds == {0, 1}

RECURSIVE SeqsUpTo(_, _)
SeqsUpTo(S, n) ==
    IF n = 0 THEN {<< >>}
    ELSE LET shorter == SeqsUpTo(S, n - 1)
         IN shorter \cup {Append(s, x) : s \in {q \in shorter : Len(q) = n - 1}, x \in S}
SeqsOfLen(S, n) == {s \in SeqsUpTo(S, n) : Len(s) = n}

(* The Go values admissible under the schema of codec c.                   *)
RECURSIVE Admissible(_)
RECURSIVE AdmissibleFields(_, _, _)
(* The records of the template with a datum in every field from idx on.    *)
AdmissibleFields(c, someRecord, idx) ==
    IF idx > Len(c.fieldCodecs) THEN {someRecord}
    ELSE UNION {AdmissibleFields(c, [someRecord EXCEPT !.Fields[idx].Datum = d], idx + 1) :
                    d \in Admissible(c.fieldCodecs[idx])}
Admissible(c) ==
    CASE c.c = "null" -> {Nil}
      [] c.c = "boolean" -> {GoBool(TRUE), GoBool(FALSE)}
      [] c.c = "int" -> {Int32(n) : n \in IntSamples}
      [] c.c = "long" -> {Int64(n) : n \in IntSamples}
      [] c.c \in {"float", "double"} -> {}
      [] c.c = "bytes" -> {GoBytes(b) : b \in BytesSamples}
      [] c.c = "string" -> {GoString(s) : s \in StringSamples}
      [] c.c = "union" -> UNION {Admissible(c.indexToDecoder[i]) : i \in DOMAIN c.indexToDecoder}
      [] c.c = "enum" -> {Enum(c.nm.n, c.symtab[i]) : i \in DOMAIN c.symtab}
      [] c.c = "fixed" -> {Fixed(c.nm.n, b) : b \in SeqsOfLen({1, 255}, c.size)}
      [] c.c = "record" -> AdmissibleFields(c, c.recordTemplate, 1)
      [] c.c = "map" ->
            UNION {{GoMap(f) : f \in [K -> Admissible(c.valuesCodec)]} :
                        K \in SUBSET MapKeySamples}
      [] c.c = "array" ->
            {NilSlice} \cup {Slice(s) : s \in SeqsUpTo(Admissible(c.valuesCodec), MaxArrayLen)}

(* Data that some codec rejects: a datum of another type, an enum of an    *)
(* undeclared symbol, a value of another name.                             *)
OtherData ==
    {Nil, GoInt(5), Int32(1), Int64(1), GoString(s_hi), Enum(s_E, s_Z), Enum(s_Z, s_A),
     Slice(<<GoString(s_hi)>>), GoMap(MapOf(<< <<s_a, GoString(s_hi)>> >>))}
(* Records of the name R that a caller makes with NewRecord from a schema  *)
(* other than the codec's and fills in: one with the field a alone, one    *)
(* with b before a, one with a third field.                                *)
WithData(r, data) == [r EXCEPT !.Fields = [i \in DOMAIN r.Fields |->
                                              [r.Fields[i] EXCEPT !.Datum = data[i]]]]
ForeignRecords ==
    {WithData(NewRecord(SRecord(s_R, <<SField(s_a, SStr(s_int))>>), nullNamespace).rec,
              <<Int32(42)>>),
     WithData(NewRecord(SRecord(s_R, <<SField(s_b, SStr(s_string)), SField(s_a, SStr(s_int))>>),
                        nullNamespace).rec,
              <<GoString(s_hi), Int32(42)>>),
     WithData(NewRecord(SRecord(s_R, <<SField(s_a, SStr(s_int)), SField(s_b, SStr(s_string)),
                                       SField(s_e, SStr(s_int))>>), nullNamespace).rec,
              <<Int32(42), GoString(s_hi), Int32(0)>>)}
(* Fixed values one byte shorter and one byte longer than the codec's size. *)
MisSized(c) ==
    IF c.c # "fixed" THEN {}
    ELSE {Fixed(c.nm.n, b) : b \in SeqsOfLen({1}, c.size - 1) \cup SeqsOfLen({1}, c.size + 1)}
(* The ways to split n items into blocks: the item counts of the blocks,   *)
(* each positive, in order.                                                *)
RECURSIVE SumSeq(_)
SumSeq(s) == IF s = << >> THEN 0 ELSE Head(s) + SumSeq(Tail(s))
Compositions(n) == {s \in SeqsUpTo(1..n, n) : SumSeq(s) = n}

(* The streams that hold the items of the encodings items in blocks: for   *)
(* every split, every block headed by its count, or by the negated count   *)
(* and the number of bytes of the block, and the count 0 at the end.       *)
SplitStreams(items) ==
    LET Block(s, neg, b) ==
            LET from == SumSeq(SubSeq(s, 1, b - 1))
                body == ConcatAll([j \in 1..s[b] |-> items[from + j]])
            IN IF neg[b] THEN Varint(ZigZag(-s[b])) \o Varint(ZigZag(Len(body))) \o body
               ELSE Varint(ZigZag(s[b])) \o body
    IN UNION {{ConcatAll([b \in DOMAIN s |-> Block(s, neg, b)]) \o <<0>> :
                    neg \in [DOMAIN s -> BOOLEAN]} : s \in Compositions(Len(items))}

(* The items an array stream, and the entries a map stream, is made of,    *)
(* their encodings, and the value the items make.                          *)
ItemCounts == {0, 1, 2}
ItemLists(c) ==
    LET Of(S) == UNION {SeqsOfLen(S, n) : n \in ItemCounts}
    IN IF c.c = "array" THEN Of(Admissible(c.valuesCodec))
       ELSE Of(MapKeySamples \X Admissible(c.valuesCodec))
ItemBytes(c, xs) ==
    IF c.c = "array" THEN [i \in DOMAIN xs |-> Ef(c.valuesCodec, xs[i], 0).w]
    ELSE [i \in DOMAIN xs |-> Varint(ZigZag(Len(xs[i][1]))) \o xs[i][1]
                                \o Ef(c.valuesCodec, xs[i][2], 0).w]
ValueOfItems(c, xs) ==
    IF c.c = "array" THEN (IF xs = << >> THEN NilSlice ELSE Slice(xs))
    ELSE GoMap(MapOf(xs))

(* What follows the last block in the stream.                              *)
Trailers == {<< >>, <<2>>}
BlockStreams(c) ==
    IF c.c \notin {"array", "map"} THEN {}
    ELSE UNION {{s \o t : s \in SplitStreams(ItemBytes(c, xs)), t \in Trailers} :
                    xs \in ItemLists(c)}

(* Arrays of one repeated item that fill one block, two blocks, and one    *)
(* and two blocks and a part of the next.                                  *)
ArrayLens == {10, 11, 20, 25}
LongArrays(c) ==
    IF c.c # "array" THEN {}
    ELSE {Slice([i \in 1..n |-> x]) : n \in ArrayLens, x \in Admissible(c.valuesCodec)}
Data(c) == Admissible(c) \cup OtherData \cup ForeignRecords \cup MisSized(c) \cup LongArrays(c)

(* The JSON texts given to JSONDecode.                                     *)
(* Numbers at and past the ends of int and of long, and one that is not an *)
(* integer: 2147483647, -2147483648, 2147483648, -2147483649, 4294967296,  *)
(* 9223372036854775807, -9223372036854775808, 9223372036854775808,         *)
(* -9223372036854775809 and 1.5.                                           *)
NumberInputs ==
    << JNum(2147483647),
       JNum(-2147483647 - 1),
       JNumText(FALSE, <<2, 1, 4, 7, 4, 8, 3, 6, 4, 8>>, << >>),
       JNumText(TRUE, <<2, 1, 4, 7, 4, 8, 3, 6, 4, 9>>, << >>),
       JNumText(FALSE, <<4, 2, 9, 4, 9, 6, 7, 2, 9, 6>>, << >>),
       JNumText(FALSE, MaxInt64Digits, << >>),
       JNumText(TRUE, MinInt64Digits, << >>),
       JNumText(FALSE, MinInt64Digits, << >>),
       JNumText(TRUE, <<9, 2, 2, 3, 3, 7, 2, 0, 3, 6, 8, 5, 4, 7, 7, 5, 8, 0, 9>>, << >>),
       JNumText(FALSE, <<1>>, <<5>>) >>
JSONInputs ==
    << << >>, <<JBad>>, <<JNull>>, <<JBool(TRUE)>>, <<JNum(1)>>, <<JStr(s_A)>>, <<JStr(s_hi)>>,
      <<JArr(<< >>)>>, <<JArr(<<JNum(1)>>)>>, <<JObj(<< >>)>>,
      <<JObj(<< <<s_int, JNum(1)>> >>)>>,
      <<JObj(<< <<s_int, JNum(1)>>, <<s_string, JStr(s_hi)>> >>)>>,
      <<JObj(<< <<s_string, JStr(s_hi)>>, <<s_int, JNum(1)>> >>)>>,
      <<JObj(<< <<s_int, JNum(1)>>, <<s_int, JNum(42)>> >>)>>,
      <<JObj(<< <<s_a, JNum(1)>> >>)>>,
      <<JObj(<< <<s_a, JNum(1)>>, <<s_b, JStr(s_hi)>> >>)>>,
      <<JObj(<< <<s_Z, JNum(1)>> >>)>>,
      <<JObj(<< <<s_E, JStr(s_Z)>> >>)>>,
      <<JObj(<< <<s_F, JStr(<<1>>)>> >>)>>,
      <<JObj(<< <<s_a, JNum(1)>>, <<s_Z, JNum(1)>> >>)>>,
      <<JStr(s_int)>>,
      <<JObj(<< <<s_null, JNum(1)>> >>)>>,
      <<JObj(<< <<s_string, JNum(1)>> >>)>> >> \o [i \in DOMAIN NumberInputs |-> <<NumberInputs[i]>>]

---------------------------------------------------------------------------
(* The program as a caller sees it: NewCodec builds a codec from a schema, *)
(* then Encode, Decode, JSONEncode and JSONDecode are called on it, each   *)
(* on a stream of the caller's.                                            *)
VARIABLES
    sid,        \* the schema given to NewCodec: an index of Schemas, 0 before the call
    codec,      \* what NewCodec returned: the error, the codec, the symbol table
    err,        \* the err of the builder call, which the codec's ef and jef assign to
    op,         \* the call whose results the caller holds; "idle" between calls
    datum,      \* the datum given to the last Encode or JSONEncode
    seed,       \* the order of the range loops over Go maps during the last operation
    stream,     \* the bytes given to the last Decode
    jstream,    \* the JSON text given to the last JSONDecode
    enc,        \* what the last Encode or JSONEncode returned and wrote
    dec,        \* what the last Decode or JSONDecode returned and left unread
    callers,    \* the calls under way of callers that share the codec
    earlier     \* the type names that the builds before the last NewCodec defined

vars == <<sid, codec, err, op, datum, seed, stream, jstream, enc, dec, callers, earlier>>

NoResult == [err |-> NoErr]
NoCallers == << >>

Init ==
    /\ sid = 0
    /\ codec = [err |-> NoErr, c |-> NoCodec, st |-> newSymbolTable]
    /\ err = NoErr
    /\ op = "init"
    /\ datum = Nil
    /\ seed = 0
    /\ stream = << >>
    /\ jstream = << >>
    /\ enc = NoResult
    /\ dec = NoResult
    /\ callers = NoCallers
    /\ earlier = {}

(* A caller with a codec and no call under way.                            *)
Built == op = "idle" /\ codec.err = NoErr

(* The data a caller gives to Encode and JSONEncode.                       *)
CallerData == IF Built THEN Data(codec.c) ELSE {}

(* NewCodec returns a codec only when its builder's err is nil.            *)
DoNewCodec(i) ==
    /\ op = "init"
    /\ sid' = i
    /\ codec' = NewCodec(Schemas[i])
    /\ err' = NoErr
    /\ op' = "idle"
    /\ UNCHANGED <<earlier, datum, seed, stream, jstream, enc, dec, callers>>

DoEncode(d, s) ==
    /\ Built
    /\ datum' = d
    /\ seed' = s
    /\ enc' = Ef(codec.c, d, s)
    /\ err' = RunSteps(codec.c, EfSteps(codec.c, d, s), << >>, err).shared
    /\ op' = "Encode"
    /\ stream' = << >>
    /\ jstream' = << >>
    /\ dec' = NoResult
    /\ UNCHANGED <<earlier, sid, codec, callers>>

(* Decode reads the stream the last Encode wrote.                          *)
DoDecode ==
    /\ op = "Encode"
    /\ stream' = enc.w
    /\ dec' = Df(codec.c, enc.w)
    /\ op' = "Decode"
    /\ UNCHANGED <<earlier, sid, codec, err, datum, seed, jstream, enc, callers>>

(* Decode reads a stream of the caller's making.                           *)
DoDecodeStream(r) ==
    /\ Built
    /\ stream' = r
    /\ dec' = Df(codec.c, r)
    /\ op' = "DecodeStream"
    /\ datum' = Nil
    /\ seed' = 0
    /\ jstream' = << >>
    /\ enc' = NoResult
    /\ UNCHANGED <<earlier, sid, codec, err, callers>>

DoJSONEncode(d) ==
    /\ Built
    /\ datum' = d
    /\ seed' = 0
    /\ enc' = Jef(codec.c, d)
    /\ err' = JefErrAfter(codec.c, d, err)
    /\ op' = "JSONEncode"
    /\ stream' = << >>
    /\ jstream' = << >>
    /\ dec' = NoResult
    /\ UNCHANGED <<earlier, sid, codec, callers>>

(* JSONDecode reads the text the last JSONEncode wrote.                    *)
DoJSONDecode(s) ==
    /\ op = "JSONEncode"
    /\ jstream' = enc.w
    /\ seed' = s
    /\ dec' = Jdf(codec.c, enc.w, s)
    /\ op' = "JSONDecode"
    /\ UNCHANGED <<earlier, sid, codec, err, datum, stream, enc, callers>>

(* JSONDecode reads a text of the caller's making.                         *)
DoJSONDecodeStream(r, s) ==
    /\ Built
    /\ jstream' = r
    /\ seed' = s
    /\ dec' = Jdf(codec.c, r, s)
    /\ op' = "JSONDecodeStream"
    /\ datum' = Nil
    /\ stream' = << >>
    /\ enc' = NoResult
    /\ UNCHANGED <<earlier, sid, codec, err, callers>>

(* The caller is done with the results of a call and drops them; the      *)
(* codec stays, for the next call.                                         *)
DoRelease ==
    /\ op \notin {"init", "idle"}
    /\ op' = "idle"
    /\ datum' = Nil
    /\ seed' = 0
    /\ stream' = << >>
    /\ jstream' = << >>
    /\ enc' = NoResult
    /\ dec' = NoResult
    /\ UNCHANGED <<earlier, sid, codec, err, callers>>

(* The streams a caller hands to Decode: every short stream, and for an    *)
(* array or map codec the streams of items in blocks.                      *)
CallerStreams ==
    IF Built THEN SeqsUpTo(StreamBytes, MaxStream) \cup BlockStreams(codec.c) ELSE {}

Next ==
    \/ \E i \in DOMAIN Schemas : DoNewCodec(i)
    \/ \E d \in CallerData, s \in Seeds : DoEncode(d, s)
    \/ DoDecode
    \/ \E r \in CallerStreams : DoDecodeStream(r)
    \/ \E d \in CallerData : DoJSONEncode(d)
    \/ \E s \in Seeds : DoJSONDecode(s)
    \/ \E i \in DOMAIN JSONInputs, s \in Seeds : DoJSONDecodeStream(JSONInputs[i], s)
    \/ DoRelease

Spec == Init /\ [][Next]_vars

(* A program that calls NewCodec again and again: every call builds with a *)
(* symbol table of its own.                                                *)
DoNewCodecAgain(i) ==
    /\ op = "idle"
    /\ sid' = i
    /\ codec' = NewCodec(Schemas[i])
    /\ err' = NoErr
    /\ earlier' = earlier \cup DOMAIN codec.st
    /\ UNCHANGED <<op, datum, seed, stream, jstream, enc, dec, callers>>

NextBuilds ==
    \/ \E i \in DOMAIN Schemas : DoNewCodec(i)
    \/ \E i \in DOMAIN Schemas : DoNewCodecAgain(i)

SpecBuilds == Init /\ [][NextBuilds]_vars

---------------------------------------------------------------------------
(* Callers that share one codec, each with a stream of its own.  A call of *)
(* Encode runs the steps of the codec's ef one at a time, and the steps of *)
(* the other callers come between them; err is the one the closures of the *)
(* codec share.  Decode shares nothing and is one step.                    *)
NumCallers == 2
Callers == 1..NumCallers
IdleCaller == [pc |-> "idle"]

(* The codecs whose ef assigns to the builder's err.                       *)
SharesErr(c) == c.c \in {"record", "map", "array"}

(* The data the callers encode: the data no codec accepts, and of the     *)
(* admissible data the arrays and maps of at most one item and the         *)
(* records, with one value per type in the items and the fields.           *)
ConcItems == {Int32(42), GoString(s_hi)}
ConcData(c) ==
    OtherData \cup
    {d \in Admissible(c) :
        CASE IsArray(d) -> Len(d.v) <= 1 /\ \A i \in DOMAIN d.v : d.v[i] \in ConcItems
          [] IsMap(d) -> /\ Cardinality(DOMAIN d.v) <= 1
                         /\ \A key \in DOMAIN d.v : d.v[key] \in ConcItems
          [] d.k = "*Record" -> \A i \in DOMAIN d.Fields : d.Fields[i].Datum \in ConcItems
          [] OTHER -> TRUE}

ConcInit ==
    /\ Init
    /\ callers = NoCallers

(* NewCodec, and the codec handed to the callers.                          *)
ConcNewCodec(i) ==
    /\ op = "init"
    /\ NewCodec(Schemas[i]).err = NoErr
    /\ SharesErr(NewCodec(Schemas[i]).c)
    /\ sid' = i
    /\ codec' = NewCodec(Schemas[i])
    /\ err' = NoErr
    /\ op' = "idle"
    /\ callers' = [p \in Callers |-> IdleCaller]
    /\ UNCHANGED <<earlier, datum, seed, stream, jstream, enc, dec>>

(* Caller p calls Encode(w, d) with an empty stream w of its own.  No map  *)
(* that the callers encode has two entries to range over.                  *)
CallEncode(p, d) ==
    /\ op = "idle"
    /\ callers # NoCallers
    /\ callers[p].pc = "idle"
    /\ callers' = [callers EXCEPT ![p] =
                        [pc |-> "run", op |-> "Encode", datum |-> d,
                         steps |-> EfSteps(codec.c, d, 0), w |-> << >>]]
    /\ UNCHANGED <<earlier, sid, codec, err, op, datum, seed, stream, jstream, enc, dec>>

(* The next statement of p's call: a return, or an encoder run on p's      *)
(* stream whose error is assigned to err.                                  *)
CallStep(p) ==
    /\ callers # NoCallers
    /\ callers[p].pc = "run"
    /\ LET step == Head(callers[p].steps)
       IN IF step.kind = "return"
          THEN /\ callers' = [callers EXCEPT ![p] =
                                [pc |-> "done", op |-> "Encode", datum |-> callers[p].datum,
                                 err |-> step.err,
                                 w |-> callers[p].w \o step.w]]
               /\ err' = err
          ELSE /\ callers' = [callers EXCEPT ![p].pc = "test",
                                             ![p].w = callers[p].w \o step.w]
               /\ err' = step.err
    /\ UNCHANGED <<earlier, sid, codec, op, datum, seed, stream, jstream, enc, dec>>

(* if err != nil { return newEncoderError(friendlyName, err) }: p reads    *)
(* the err the closures share.                                             *)
CallTest(p) ==
    /\ callers # NoCallers
    /\ callers[p].pc = "test"
    /\ IF err # NoErr
       THEN callers' = [callers EXCEPT ![p] =
                            [pc |-> "done", op |-> "Encode", datum |-> callers[p].datum,
                             err |-> newEncoderError(codec.c.c, err), w |-> callers[p].w]]
       ELSE callers' = [callers EXCEPT ![p].pc = "run",
                                       ![p].steps = Tail(callers[p].steps)]
    /\ UNCHANGED <<earlier, sid, codec, err, op, datum, seed, stream, jstream, enc, dec>>

(* Caller p calls Decode(r) on a stream r of its own.                      *)
CallDecode(p, r) ==
    /\ op = "idle"
    /\ callers # NoCallers
    /\ callers[p].pc = "idle"
    /\ callers' = [callers EXCEPT ![p] =
                        [pc |-> "done", op |-> "Decode", stream |-> r,
                         dec |-> Df(codec.c, r)]]
    /\ UNCHANGED <<earlier, sid, codec, err, op, datum, seed, stream, jstream, enc, dec>>

(* Caller p is done with the results of its call.                          *)
CallRelease(p) ==
    /\ callers # NoCallers
    /\ callers[p].pc = "done"
    /\ callers' = [callers EXCEPT ![p] = IdleCaller]
    /\ UNCHANGED <<earlier, sid, codec, err, op, datum, seed, stream, jstream, enc, dec>>

ConcNext ==
    \/ \E i \in DOMAIN Schemas : ConcNewCodec(i)
    \/ \E p \in Callers :
            \E d \in (IF op = "idle" THEN ConcData(codec.c) ELSE {}) : CallEncode(p, d)
    \/ \E p \in Callers : CallStep(p)
    \/ \E p \in Callers : CallTest(p)
    \/ \E p \in Callers, r \in SeqsUpTo(StreamBytes, 1) : CallDecode(p, r)
    \/ \E p \in Callers : CallRelease(p)

SpecConc == ConcInit /\ [][ConcNext]_vars
---------------------------------------------------------------------------
(* Properties.                                                             *)

NullableInt == SArr(<<SStr(s_null), SStr(s_int)>>)
IntOrString == SArr(<<SStr(s_int), SStr(s_string)>>)

(* The call of caller p is an Encode that has returned.                    *)
EncodeDone(p) == callers[p].pc = "done" /\ callers[p].op = "Encode"

(* C1: whatever the interleaving of the callers' Encode and Decode calls   *)
(* on the one codec, an Encode that has returned has returned the error    *)
(* and written the bytes that the same Encode returns and writes when it   *)
(* runs alone.                                                             *)
ConcurrentEncodeAsAlone ==
    \A p \in DOMAIN callers :
        EncodeDone(p) =>
            [err |-> callers[p].err, w |-> callers[p].w] = Ef(codec.c, callers[p].datum, 0)

(* An Encode of [42] under array<int> that returned the error of another   *)
(* caller's item, or an Encode that returned nil where alone it fails.     *)
ConcurrentEncodeTookOthersErr ==
    \E p \in DOMAIN callers :
        /\ EncodeDone(p)
        /\ (callers[p].err = NoErr) # (Ef(codec.c, callers[p].datum, 0).err = NoErr)

(* C2: binary round trip.  For a value admissible under the schema of the  *)
(* codec, Encode succeeds, and Decode of the bytes it wrote succeeds,      *)
(* returns the value, and leaves none of the bytes unread.                 *)
BinaryRoundTrip ==
    (op = "Decode" /\ datum \in Admissible(codec.c)) =>
        /\ enc.err = NoErr
        /\ dec.err = NoErr
        /\ dec.v = datum
        /\ dec.rest = << >>

(* The empty array encodes to the one byte 0 and decodes to the nil slice. *)
EmptyArrayDecodesToNil ==
    /\ op = "Decode"
    /\ codec.c.c = "array"
    /\ datum = Slice(<< >>)
    /\ enc = EncOk(<<0>>)
    /\ dec = DecOk(NilSlice, << >>)

(* C3: JSON round trip.  For a value admissible under the schema of the    *)
(* codec, JSONEncode succeeds, and JSONDecode of the text it wrote         *)
(* succeeds and returns the value.                                         *)
JSONRoundTrip ==
    (op = "JSONDecode" /\ datum \in Admissible(codec.c)) =>
        /\ enc.err = NoErr
        /\ dec.err = NoErr
        /\ dec.v = datum

(* JSONDecode of the text JSONEncode wrote for a fixed value panics.       *)
FixedJSONDecodePanics ==
    /\ op = "JSONDecode"
    /\ codec.c.c = "fixed"
    /\ datum \in Admissible(codec.c)
    /\ enc.err = NoErr
    /\ IsPanic(dec.err)

(* The schema names type name `name' in the type of a field, in the        *)
(* members of a union, or in the items of an array or the values of a map. *)
RECURSIVE Mentions(_, _)
Mentions(schema, name) ==
    CASE IsString(schema) -> schema.v = name
      [] IsArray(schema) -> \E i \in DOMAIN schema.v : Mentions(schema.v[i], name)
      [] IsMap(schema) ->
            \E key \in DOMAIN schema.v \cap {s_type, s_items, s_values, s_fields} :
                Mentions(schema.v[key], name)
      [] OTHER -> FALSE

(* A record schema with a field that refers to the record's own name.      *)
SelfReferential(schema) ==
    /\ IsMap(schema)
    /\ HasKey(schema, s_type) /\ schema.v[s_type] = SStr(s_record)
    /\ HasKey(schema, s_name) /\ HasKey(schema, s_fields)
    /\ Mentions(schema.v[s_fields], schema.v[s_name].v)

(* C4: NewCodec accepts a schema in which a field of a record refers to    *)
(* the record's own name: the name is in the symbol table when the field   *)
(* schemas are compiled.                                                   *)
SelfReferenceAccepted ==
    (op # "init" /\ SelfReferential(Schemas[sid])) => codec.err = NoErr

(* NewCodec of a self-referential record has returned an error, and the    *)
(* symbol table it built with does not hold the record's name.             *)
SelfReferenceRejected ==
    /\ op # "init"
    /\ SelfReferential(Schemas[sid])
    /\ codec.err # NoErr
    /\ Schemas[sid].v[s_name].v \notin DOMAIN codec.st

(* Two members of the union schema have the same discriminator key.        *)
DuplicateDiscriminator(schemaArray) ==
    \E i, j \in DOMAIN schemaArray :
        /\ i < j
        /\ getUnionTypeName("union", nullNamespace, schemaArray[i]).err = NoErr
        /\ getUnionTypeName("union", nullNamespace, schemaArray[i])
               = getUnionTypeName("union", nullNamespace, schemaArray[j])

(* C5: NewCodec of a union schema in which two members have the same       *)
(* discriminator key returns an error.                                     *)
DuplicateDiscriminatorRejected ==
    (op # "init" /\ IsArray(Schemas[sid]) /\ DuplicateDiscriminator(Schemas[sid].v)) =>
        codec.err # NoErr

(* A union codec built from two array members: the one key "array" stands  *)
(* for both member indexes.                                                *)
DuplicateDiscriminatorBuilt ==
    /\ op # "init"
    /\ IsArray(Schemas[sid])
    /\ DuplicateDiscriminator(Schemas[sid].v)
    /\ codec.err = NoErr
    /\ Cardinality(DOMAIN codec.c.nameToJSONDecoder) < Len(codec.c.indexToDecoder)

(* The datum of the last call matches a member of the union codec.         *)
UnionMatch ==
    /\ codec.c.c = "union"
    /\ unionDatumName(datum) \in DOMAIN codec.c.nameToUnionEncoder

(* C6: Encode under a union, of a datum that matches a member, writes the  *)
(* member's zero-based position in the schema as an Avro int, then the     *)
(* bytes the member's encoder writes, and nothing else, and returns an     *)
(* error exactly when the member's encoder does.  Under ["null","int"],    *)
(* nil gives the byte 0 and int32 42 the bytes 2, 84.                      *)
UnionEncodeIndexThenMember ==
    (op = "Encode" /\ UnionMatch) =>
        /\ \E i \in DOMAIN codec.c.allowedNames :
              /\ codec.c.allowedNames[i] = unionDatumName(datum)
              /\ enc.w = Varint(ZigZag(i - 1)) \o Ef(codec.c.indexToDecoder[i], datum, seed).w
              /\ (enc.err = NoErr) <=> (Ef(codec.c.indexToDecoder[i], datum, seed).err = NoErr)
        /\ (Schemas[sid] = NullableInt /\ datum = Nil) => enc = EncOk(<<0>>)
        /\ (Schemas[sid] = NullableInt /\ datum = Int32(42)) => enc = EncOk(<<2, 84>>)

UnionEncodeOfInt42 ==
    /\ op = "Encode"
    /\ Schemas[sid] = NullableInt
    /\ datum = Int32(42)
    /\ UnionMatch
    /\ enc = EncOk(<<2, 84>>)

(* C7: Encode under a union, of a datum that matches no member, returns    *)
(* an error that names the members expected and the name received, writes  *)
(* no byte, and returns the same whatever the order of the range loops.    *)
UnionEncodeMismatchRejected ==
    (op = "Encode" /\ codec.c.c = "union" /\ ~UnionMatch) =>
        /\ enc.err # NoErr
        /\ enc.err.expected = codec.c.allowedNames
        /\ enc.err.received = unionDatumName(datum)
        /\ enc.w = << >>
        /\ \A s \in Seeds : Ef(codec.c, datum, s) = enc

UnionEncodeOfStringRejected ==
    /\ op = "Encode"
    /\ Schemas[sid] = NullableInt
    /\ datum = GoString(s_hi)
    /\ ~UnionMatch
    /\ enc.err # NoErr
    /\ enc.err.expected = <<s_null, s_int32>>
    /\ enc.err.received = s_string
    /\ enc.w = << >>

(* C8: Decode under a union reads one Avro int i.  When i is negative or   *)
(* not less than the number of members, Decode returns an error and has    *)
(* read nothing after i; otherwise what Decode returns and leaves unread   *)
(* is what the decoder of the member at position i returns and leaves      *)
(* unread, given the stream after i.                                       *)
UnionDecodeByIndex ==
    (op \in {"Decode", "DecodeStream"} /\ codec.c.c = "union") =>
        LET Read(i) ==
                IF i.err # NoErr THEN dec.err # NoErr
                ELSE IF i.v.v < 0 \/ i.v.v >= Len(codec.c.allowedNames)
                     THEN dec.err # NoErr /\ dec.rest = i.rest
                ELSE dec = Df(codec.c.indexToDecoder[i.v.v + 1], i.rest)
        IN Read(intDecoder(stream))

(* Index 0 of ["int","string"] decodes the int that follows it; and index  *)
(* 2 of a union of two members is out of range, with the byte after it     *)
(* unread.                                                                 *)
UnionDecodeOfIndexes ==
    /\ op = "DecodeStream"
    /\ Schemas[sid] = IntOrString
    /\ \/ stream = <<0, 2>> /\ dec = DecOk(Int32(1), << >>)
       \/ stream = <<4, 0>> /\ dec.err # NoErr /\ dec.rest = <<0>>

(* C9: JSONEncode under a union writes null for nil matched to the "null"  *)
(* member, and for any other datum that matches a member an object of one  *)
(* key, the member's type name, whose value is the text the member's       *)
(* JSONEncode writes for the datum.                                        *)
UnionJSONEncodeWrapsMember ==
    (/\ op = "JSONEncode"
     /\ UnionMatch
     /\ Jef(codec.c.nameToUnionEncoder[unionDatumName(datum)].c, datum).err = NoErr) =>
        LET Wrap(ue) ==
                IF datum = Nil THEN enc = EncOk(<<JNull>>)
                ELSE enc = EncOk(<<JObj(<< <<ue.tn, Jef(ue.c, datum).w[1]>> >>)>>)
        IN Wrap(codec.c.nameToUnionEncoder[unionDatumName(datum)])

(* A record under a union is written with its keys sorted, while its own   *)
(* JSONEncode writes them in the order of the fields.                      *)
UnionJSONEncodeSortsKeys ==
    /\ op = "JSONEncode"
    /\ UnionMatch
    /\ datum.k = "*Record"
    /\ Jef(codec.c.nameToUnionEncoder[datum.Name].c, datum)
            = EncOk(<<JObj(<< <<s_b, JNum(42)>>, <<s_a, JNum(0)>> >>)>>)
    /\ enc = EncOk(<<JObj(<< <<s_R, JObj(<< <<s_a, JNum(0)>>, <<s_b, JNum(42)>> >>)>> >>)>>)

(* The JSON text is one object, and the keys of its entries are none or    *)
(* two or more.                                                            *)
NotOneEntry(r) ==
    /\ Len(r) = 1
    /\ r[1].k = "obj"
    /\ Cardinality({r[1].v[i][1] : i \in DOMAIN r[1].v}) # 1

(* C10: JSONDecode under a union returns an error for an object with no    *)
(* entry or with two or more entries.                                      *)
UnionJSONDecodeOneEntryOnly ==
    (op = "JSONDecodeStream" /\ codec.c.c = "union" /\ NotOneEntry(jstream)) =>
        dec.err # NoErr

(* {"int":1,"string":"hi"} under ["int","string"] decodes to the string    *)
(* when the range loop visits the key "string" first.                      *)
UnionJSONDecodeTakesFirstKey ==
    /\ op = "JSONDecodeStream"
    /\ Schemas[sid] = IntOrString
    /\ jstream = <<JObj(<< <<s_int, JNum(1)>>, <<s_string, JStr(s_hi)>> >>)>>
    /\ dec = JDecOk(GoString(s_hi))
    /\ Jdf(codec.c, jstream, 0) = JDecOk(Int32(1))

(* The datum of the last call is a record of the name of the record codec. *)
RecordMatch ==
    /\ codec.c.c = "record"
    /\ datum.k = "*Record"
    /\ datum.Name = codec.c.recordTemplate.Name

(* What the fields of the schema from field idx on give, in declared       *)
(* order: for each the encoding, by the field's codec, of the datum the    *)
(* caller's record holds under the field's name, else of the field's       *)
(* default; no result when a field has neither.                            *)
RECURSIVE SchemaFieldsEncoding(_, _, _, _)
SchemaFieldsEncoding(c, someRecord, idx, s) ==
    IF idx > Len(c.recordTemplate.Fields) THEN [ok |-> TRUE, w |-> << >>]
    ELSE LET field == c.recordTemplate.Fields[idx]
             at == getField(someRecord, field.Name)
             present == at # 0 /\ someRecord.Fields[at].Datum # Nil
             Rest(e, more) ==
                IF e.err # NoErr \/ ~more.ok THEN [ok |-> FALSE, w |-> << >>]
                ELSE [ok |-> TRUE, w |-> e.w \o more.w]
         IN IF ~present /\ ~field.hasDefault THEN [ok |-> FALSE, w |-> << >>]
            ELSE Rest(Ef(c.fieldCodecs[idx],
                         IF present THEN someRecord.Fields[at].Datum ELSE field.defval, s),
                      SchemaFieldsEncoding(c, someRecord, idx + 1, s))

(* C11: Encode under a record codec, of a record of the codec's name,      *)
(* writes for each field of the schema, in declared order and for those    *)
(* fields only, the field codec's encoding of the caller's datum, else of  *)
(* the default, and fails when a field has neither or a field's encoding   *)
(* fails, whatever the Fields of the record passed.                        *)
RecordEncodeBySchemaFields ==
    (op = "Encode" /\ RecordMatch) =>
        LET Same(want) ==
                IF want.ok THEN enc = EncOk(want.w)
                ELSE enc.err # NoErr /\ ~IsPanic(enc.err)
        IN Same(SchemaFieldsEncoding(codec.c, datum, 1, seed))

(* The same, for the records made from the codec's own schema.             *)
RecordEncodeOfOwnRecords ==
    (op = "Encode" /\ RecordMatch /\ datum \in Admissible(codec.c)) =>
        LET Same(want) ==
                IF want.ok THEN enc = EncOk(want.w)
                ELSE enc.err # NoErr /\ ~IsPanic(enc.err)
        IN Same(SchemaFieldsEncoding(codec.c, datum, 1, seed))

(* A record of the name R with the one field a, passed to the codec of     *)
(* R{a:int, b:string}: Encode returns nil, having written a alone.         *)
RecordEncodeOfShortRecord ==
    /\ op = "Encode"
    /\ RecordMatch
    /\ Len(datum.Fields) = 1
    /\ Len(codec.c.recordTemplate.Fields) = 2
    /\ ~codec.c.recordTemplate.Fields[2].hasDefault
    /\ enc = EncOk(<<84>>)

(* The datum the record's encoders take for field i of someRecord.         *)
FieldValue(someRecord, i) ==
    IF someRecord.Fields[i].Datum # Nil THEN someRecord.Fields[i].Datum
    ELSE someRecord.Fields[i].defval

(* Every field of the record has a datum or a default, and the field's     *)
(* codec encodes it as JSON.                                               *)
FieldsJSONEncodable(c, someRecord) ==
    \A i \in DOMAIN someRecord.Fields :
        /\ someRecord.Fields[i].Datum # Nil \/ someRecord.Fields[i].hasDefault
        /\ Jef(c.fieldCodecs[i], FieldValue(someRecord, i)).err = NoErr

(* C12: JSONEncode under a record codec, of a record of the schema, writes *)
(* one object with one key per field of the schema, in declared order,     *)
(* the value of each key being the text the field codec's JSONEncode       *)
(* writes for the field's datum.                                           *)
RecordJSONEncodeInFieldOrder ==
    (/\ op = "JSONEncode"
     /\ RecordMatch
     /\ datum \in Admissible(codec.c)
     /\ FieldsJSONEncodable(codec.c, datum)) =>
        enc = EncOk(<<JObj([i \in DOMAIN codec.c.recordTemplate.Fields |->
                              <<Utf8Decode(codec.c.recordTemplate.Fields[i].Name),
                                Jef(codec.c.fieldCodecs[i], FieldValue(datum, i)).w[1]>>])>>)

(* The keys alone: they are the names of the schema's fields in declared   *)
(* order.                                                                  *)
RecordJSONEncodeKeysInFieldOrder ==
    (/\ op = "JSONEncode"
     /\ RecordMatch
     /\ datum \in Admissible(codec.c)
     /\ FieldsJSONEncodable(codec.c, datum)) =>
        /\ enc.err = NoErr
        /\ Len(enc.w) = 1
        /\ enc.w[1].k = "obj"
        /\ [i \in DOMAIN enc.w[1].v |-> enc.w[1].v[i][1]]
             = [i \in DOMAIN codec.c.recordTemplate.Fields |->
                    Utf8Decode(codec.c.recordTemplate.Fields[i].Name)]

(* A record in a field of a record is written with its keys sorted: b is   *)
(* declared before a and written after it.                                 *)
NestedRecordJSONEncodeSortsKeys ==
    /\ op = "JSONEncode"
    /\ RecordMatch
    /\ datum \in Admissible(codec.c)
    /\ Len(datum.Fields) = 1
    /\ Jef(codec.c.fieldCodecs[1], datum.Fields[1].Datum)
            = EncOk(<<JObj(<< <<s_b, JNum(42)>>, <<s_a, JNum(0)>> >>)>>)
    /\ enc = EncOk(<<JObj(<< <<s_next, JObj(<< <<s_a, JNum(0)>>, <<s_b, JNum(42)>> >>)>> >>)>>)

(* C13: JSONDecode under a record codec, of an object, returns an error    *)
(* when a key of the object names no field of the record, and otherwise    *)
(* succeeds exactly when the field codec decodes the value of every key;   *)
(* the record returned then holds, in each field that a key names, what    *)
(* the field's codec decodes from the key's value, and no datum in the     *)
(* other fields.                                                           *)
RecordJSONDecodeByKeys ==
    (/\ op \in {"JSONDecode", "JSONDecodeStream"}
     /\ codec.c.c = "record"
     /\ Len(jstream) = 1
     /\ jstream[1].k = "obj") =>
        LET ByKeys(fields, obj) ==
                LET Of(i) == Jdf(codec.c.fieldCodecs[i], <<Marshal(obj[fields[i].Name])>>, seed)
                    named == {i \in DOMAIN fields : fields[i].Name \in DOMAIN obj}
                IN IF \E key \in DOMAIN obj : \A i \in DOMAIN fields : fields[i].Name # key
                   THEN dec.err # NoErr
                   ELSE IF \E i \in named : Of(i).err # NoErr
                        THEN dec.err # NoErr
                   ELSE /\ dec.err = NoErr
                        /\ dec.v.Name = codec.c.recordTemplate.Name
                        /\ Len(dec.v.Fields) = Len(fields)
                        /\ \A i \in DOMAIN fields :
                              /\ dec.v.Fields[i].Name = fields[i].Name
                              /\ dec.v.Fields[i].Datum = IF i \in named THEN Of(i).v ELSE Nil
        IN ByKeys(codec.c.recordTemplate.Fields, Unmarshal(jstream[1]).v)

(* {"a":1} under R{a:int, b:string} gives a = 1 and b without datum; and   *)
(* {"a":1,"Z":1} is rejected.                                              *)
RecordJSONDecodeOfKeys ==
    /\ op = "JSONDecodeStream"
    /\ codec.c.c = "record"
    /\ Len(codec.c.recordTemplate.Fields) = 2
    /\ \/ /\ jstream = <<JObj(<< <<s_a, JNum(1)>> >>)>>
          /\ dec.err = NoErr
          /\ dec.v.Fields[1].Datum = Int32(1)
          /\ dec.v.Fields[2].Datum = Nil
       \/ /\ jstream = <<JObj(<< <<s_a, JNum(1)>>, <<s_Z, JNum(1)>> >>)>>
          /\ dec.err # NoErr

(* ---- C14 ---------------------------------------------------------------- *)
(* The symbol of an enum datum: the Value of an Enum, or a plain string.   *)
SymbolOf(d) == IF d.k = "Enum" THEN d.Value ELSE d.v

EnumCodec == codec.err = NoErr /\ codec.c.c = "enum"

(* C14: the binary encoding of an enum datum is the Avro long of the       *)
(* zero-based index of its symbol in the schema's symbols, and an error    *)
(* with nothing written when the symbol is not declared; the binary        *)
(* decoding reads a long i, fails when i < 0 or i >= the number of         *)
(* symbols, and otherwise returns the enum value of the symbol at index i. *)
(* Enum E of symbols A, B, C encodes the symbol B as the byte 0x02.        *)
EnumBinaryByIndex ==
    /\ (EnumCodec /\ op = "Encode" /\ datum.k \in {"Enum", "string"}) =>
          LET symtab == codec.c.symtab
              Declared == {i \in DOMAIN symtab : symtab[i] = SymbolOf(datum)}
          IN  IF Declared = {}
              THEN enc.err # NoErr /\ enc.err.e = "error" /\ enc.w = << >>
              ELSE \E i \in Declared : enc = EncOk(Varint(ZigZag(i - 1)))
    /\ (EnumCodec /\ op \in {"Decode", "DecodeStream"}) =>
          LET symtab == codec.c.symtab
              i == longDecoder(stream)
          IN  IF i.err # NoErr THEN dec.err # NoErr
              ELSE IF i.v.v < 0 \/ i.v.v >= Len(symtab)
                   THEN dec.err # NoErr /\ dec.err.e = "error"
              ELSE dec = DecOk(Enum(codec.c.nm.n, symtab[i.v.v + 1]), i.rest)
    /\ (EnumCodec /\ op = "Encode" /\ codec.c.symtab = <<s_A, s_B, s_C>>
           /\ datum = Enum(s_E, s_B)) => enc = EncOk(<<2>>)

(* The symbol B of E is encoded, an undeclared symbol is refused, and both *)
(* an index below zero and one past the last symbol are refused on decode. *)
EnumEncodeOfB ==
    EnumCodec /\ op = "Encode" /\ datum = Enum(s_E, s_B) /\ enc = EncOk(<<2>>)

EnumDecodeOfIndexPastEnd ==
    EnumCodec /\ op = "DecodeStream" /\ stream = <<6>> /\ dec.err # NoErr

(* ---- C15 ---------------------------------------------------------------- *)
DecodeOps == {"Decode", "DecodeStream", "JSONDecode", "JSONDecodeStream"}

DeclaredSymbol(c, s) == \E i \in DOMAIN c.symtab : c.symtab[i] = s

(* C15: every enum value that Decode or JSONDecode returns has a symbol    *)
(* the schema declares, and Encode and JSONEncode of an Enum whose symbol  *)
(* is not declared fail with an error.                                     *)
EnumSymbolAlwaysDeclared ==
    /\ (EnumCodec /\ op \in DecodeOps /\ dec.err = NoErr) =>
          dec.v.k = "Enum" /\ DeclaredSymbol(codec.c, dec.v.Value)
    /\ (EnumCodec /\ op \in {"Encode", "JSONEncode"} /\ datum.k = "Enum"
           /\ ~DeclaredSymbol(codec.c, datum.Value)) =>
          enc.err # NoErr

(* The binary half of it: Decode returns declared symbols only, and Encode *)
(* refuses an undeclared one.                                              *)
EnumBinarySymbolDeclared ==
    /\ (EnumCodec /\ op \in {"Decode", "DecodeStream"} /\ dec.err = NoErr) =>
          dec.v.k = "Enum" /\ DeclaredSymbol(codec.c, dec.v.Value)
    /\ (EnumCodec /\ op = "Encode" /\ datum.k = "Enum"
           /\ ~DeclaredSymbol(codec.c, datum.Value)) =>
          enc.err # NoErr

(* JSONDecode of "hi" under E{A,B,C} returns the enum value of symbol hi.  *)
EnumJSONDecodeOfUndeclared ==
    /\ EnumCodec /\ op = "JSONDecodeStream"
    /\ jstream = <<JStr(s_hi)>>
    /\ dec = JDecOk(Enum(s_E, s_hi))

(* JSONEncode of the enum value of symbol Z under E{A,B,C} writes "Z".     *)
EnumJSONEncodeOfUndeclared ==
    /\ EnumCodec /\ op = "JSONEncode"
    /\ datum = Enum(s_E, s_Z)
    /\ enc = EncOk(<<JStr(s_Z)>>)

(* ---- C16 ---------------------------------------------------------------- *)
FixedCodec == codec.err = NoErr /\ codec.c.c = "fixed"

(* The text of one JSON string of n bytes in the stream.                   *)
JSONStringOfLen(r, n) == Len(r) = 1 /\ r[1].k = "str" /\ Len(Utf8Encode(r[1].v)) = n

(* C16: every fixed value that Decode or JSONDecode of a fixed codec of    *)
(* size n returns has exactly n bytes; Encode and JSONEncode of a fixed    *)
(* value of another length fail; and JSONDecode of a string shorter or     *)
(* longer than n bytes is rejected with an error.                          *)
FixedSizeKept ==
    /\ (FixedCodec /\ op \in DecodeOps /\ dec.err = NoErr) =>
          dec.v.k = "Fixed" /\ Len(dec.v.Value) = codec.c.size
    /\ (FixedCodec /\ op \in {"Encode", "JSONEncode"} /\ datum.k = "Fixed"
           /\ Len(datum.Value) # codec.c.size) =>
          enc.err # NoErr /\ enc.err.e = "error"
    /\ (FixedCodec /\ op \in {"JSONDecode", "JSONDecodeStream"}
           /\ \E n \in 0..4 : n # codec.c.size /\ JSONStringOfLen(jstream, n)) =>
          dec.err # NoErr /\ dec.err.e = "error"

(* What holds of it: the binary decoder returns size bytes, no JSON        *)
(* decoding returns a value, and both encoders refuse another length.      *)
FixedSizeKeptByBinaryAndEncoders ==
    /\ (FixedCodec /\ op \in DecodeOps /\ dec.err = NoErr) =>
          /\ op \in {"Decode", "DecodeStream"}
          /\ dec.v.k = "Fixed" /\ Len(dec.v.Value) = codec.c.size
    /\ (FixedCodec /\ op \in {"Encode", "JSONEncode"} /\ datum.k = "Fixed"
           /\ Len(datum.Value) # codec.c.size) =>
          enc.err # NoErr /\ enc.err.e = "error"

(* JSONDecode of the one-byte string "A" under fixed F of size 2 panics.   *)
FixedJSONDecodeOfShortPanics ==
    /\ FixedCodec /\ op = "JSONDecodeStream"
    /\ codec.c.size = 2
    /\ jstream = <<JStr(s_A)>>
    /\ dec.err # NoErr /\ dec.err.e = "panic"

(* A fixed value of three bytes is refused by Encode of F of size 2.       *)
FixedEncodeOfLongRefused ==
    /\ FixedCodec /\ op = "Encode"
    /\ codec.c.size = 2
    /\ datum = Fixed(s_F, <<1, 1, 1>>)
    /\ enc.err # NoErr

(* Two bytes of a stream decode to the fixed value of those bytes.         *)
FixedDecodeOfTwoBytes ==
    /\ FixedCodec /\ op = "DecodeStream"
    /\ stream = <<1, 2, 3>>
    /\ dec = DecOk(Fixed(s_F, <<1, 2>>), <<3>>)

(* ---- C17 ---------------------------------------------------------------- *)
ArrayCodec == codec.err = NoErr /\ codec.c.c = "array"

(* The number of blocks of n items, and the number of items of block b.    *)
BlocksOf(n) == (n + itemsPerArrayBlock - 1) \div itemsPerArrayBlock
BlockLen(n, b) ==
    IF b < BlocksOf(n) THEN itemsPerArrayBlock ELSE n - itemsPerArrayBlock * (b - 1)

(* C17: the binary encoding of an array of n items is ceil(n/10) blocks,   *)
(* each the long of its item count, positive and at most 10, followed by   *)
(* its items, every block but the last of exactly 10 items, and then the   *)
(* long 0; an empty array is the long 0 alone.  25 items are written as    *)
(* blocks of 10, 10 and 5 and the byte 0x00.                               *)
ArrayEncodeInBlocks ==
    (/\ ArrayCodec /\ op = "Encode" /\ IsArray(datum)
     /\ \A i \in DOMAIN datum.v : Ef(codec.c.valuesCodec, datum.v[i], seed).err = NoErr) =>
        LET n == Len(datum.v)
            Item(i) == Ef(codec.c.valuesCodec, datum.v[i], seed).w
            Block(b) ==
                Varint(ZigZag(BlockLen(n, b)))
                \o ConcatAll([j \in 1..BlockLen(n, b) |->
                                Item(itemsPerArrayBlock * (b - 1) + j)])
        IN  /\ \A b \in 1..BlocksOf(n) : BlockLen(n, b) > 0 /\ BlockLen(n, b) <= 10
            /\ enc = EncOk(ConcatAll([b \in 1..BlocksOf(n) |-> Block(b)]) \o <<0>>)
            /\ n = 0 => enc = EncOk(<<0>>)
            /\ (n = 25 /\ datum.v[1] = Int32(0)) =>
                  enc = EncOk(<<20>> \o [i \in 1..10 |-> 0] \o <<20>> \o [i \in 1..10 |-> 0]
                              \o <<10>> \o [i \in 1..5 |-> 0] \o <<0>>)

(* An array of 25 items is encoded, in three blocks.                       *)
ArrayEncodeOf25 ==
    /\ ArrayCodec /\ op = "Encode"
    /\ IsArray(datum) /\ Len(datum.v) = 25 /\ datum.v[1] = Int32(42)
    /\ enc.err = NoErr
    /\ Len(enc.w) = 29
    /\ enc.w[1] = 20 /\ enc.w[12] = 20 /\ enc.w[23] = 10 /\ enc.w[29] = 0

(* ---- C18 ---------------------------------------------------------------- *)
MapCodec == codec.err = NoErr /\ codec.c.c = "map"

(* The orders in which the keys of the set K can be written, each once.    *)
OrdersOf(K) ==
    {s \in [1..Cardinality(K) -> K] : \A i, j \in DOMAIN s : i # j => s[i] # s[j]}

(* C18: the binary encoding of a map of N > 0 entries is the long N, then  *)
(* N pairs of a key, written as a string, and its value, every key of the  *)
(* map once, then the long 0; an empty map is the long 0 alone.            *)
MapEncodeOneBlock ==
    (/\ MapCodec /\ op = "Encode" /\ IsMap(datum)
     /\ \A k \in DOMAIN datum.v : Ef(codec.c.valuesCodec, datum.v[k], seed).err = NoErr) =>
        LET dict == datum.v
            N == Cardinality(DOMAIN dict)
            Pair(k) == Varint(ZigZag(Len(k))) \o k \o Ef(codec.c.valuesCodec, dict[k], seed).w
        IN  IF N = 0 THEN enc = EncOk(<<0>>)
            ELSE \E keys \in OrdersOf(DOMAIN dict) :
                    enc = EncOk(Varint(ZigZag(N))
                                \o ConcatAll([i \in 1..N |-> Pair(keys[i])])
                                \o <<0>>)

(* The map {a: 42, b: 0} is encoded as the count 2, two pairs and the 0.   *)
MapEncodeOfTwoEntries ==
    /\ MapCodec /\ op = "Encode"
    /\ datum = GoMap(MapOf(<< <<s_a, Int32(42)>>, <<s_b, Int32(0)>> >>))
    /\ enc \in {EncOk(<<4, 2>> \o s_a \o <<84>> \o <<2>> \o s_b \o <<0, 0>>),
                EncOk(<<4, 2>> \o s_b \o <<0>> \o <<2>> \o s_a \o <<84, 0>>)}

(* ---- C19 ---------------------------------------------------------------- *)
(* C19: the binary decoding of an array, and of a map, returns the same    *)
(* value for every split of the same items into blocks (one block of all   *)
(* of them, blocks of one, blocks headed by a negative count and the byte  *)
(* size of the block, which is read and discarded); it stops at the first  *)
(* block count 0 and leaves every byte after it unread.                    *)
BlockSplitsDecodeAlike ==
    ((ArrayCodec \/ MapCodec) /\ op = "DecodeStream") =>
        \A t \in Trailers :
            LET n == Len(stream) - Len(t)
            IN  (n >= 0 /\ SubSeq(stream, n + 1, Len(stream)) = t) =>
                    \A xs \in ItemLists(codec.c) :
                        SubSeq(stream, 1, n) \in SplitStreams(ItemBytes(codec.c, xs)) =>
                            dec = DecOk(ValueOfItems(codec.c, xs), t)

(* The array [42, 0] is decoded from a block of one item and a block of    *)
(* count -1 and size 1, and the byte after the closing 0 is left.          *)
ArrayDecodeOfTwoBlocks ==
    /\ ArrayCodec /\ op = "DecodeStream"
    /\ stream = <<2, 84, 1, 2, 0, 0, 2>>
    /\ dec = DecOk(Slice(<<Int32(42), Int32(0)>>), <<2>>)

(* The map {a: 0} is decoded from two blocks of one entry of the key a,    *)
(* the later entry replacing the earlier.                                  *)
MapDecodeOfTwoBlocks ==
    /\ MapCodec /\ op = "DecodeStream"
    /\ stream = <<2, 2>> \o s_a \o <<84, 2, 2>> \o s_a \o <<0, 0>>
    /\ dec = DecOk(GoMap(MapOf(<< <<s_a, Int32(0)>> >>)), << >>)

(* ---- C20 ---------------------------------------------------------------- *)
MaxInt32Digits == <<2, 1, 4, 7, 4, 8, 3, 6, 4, 7>>
MinInt32Digits == <<2, 1, 4, 7, 4, 8, 3, 6, 4, 8>>

(* The JSON number doc is an integer of [-2^31, 2^31), of [-2^63, 2^63).   *)
IsIntegerDoc(doc) == ~IsText(doc) \/ doc.frac = << >>
InInt32(doc) ==
    ~IsText(doc)
    \/ DigitsLE(doc.digits, IF doc.neg THEN MinInt32Digits ELSE MaxInt32Digits)
InInt64(doc) ==
    ~IsText(doc)
    \/ DigitsLE(doc.digits, IF doc.neg THEN MinInt64Digits ELSE MaxInt64Digits)

(* The Go integer val is the number the JSON number doc writes.            *)
SameNumber(val, doc) ==
    IF ~IsText(doc) THEN ~IsText(val) /\ val.v = doc.v
    ELSE /\ doc.frac = << >>
         /\ IF IsText(val) THEN val.neg = doc.neg /\ val.digits = doc.digits
            ELSE /\ Len(doc.digits) <= 9
                 /\ val.v = (IF doc.neg THEN -DecValue(doc.digits) ELSE DecValue(doc.digits))

NumberDecoded(type) ==
    /\ codec.err = NoErr /\ codec.c.c = type
    /\ op \in {"JSONDecode", "JSONDecodeStream"}
    /\ Len(jstream) = 1 /\ jstream[1].k = "num"

(* C20: decoding a JSON number against int fails when the number is not an *)
(* integer or is outside [-2^31, 2^31), against long when it is not an     *)
(* integer or is outside [-2^63, 2^63); a value that is returned is the    *)
(* input number.                                                           *)
JSONIntegerInRangeOrRefused ==
    /\ NumberDecoded("int") =>
          /\ (~IsIntegerDoc(jstream[1]) \/ ~InInt32(jstream[1])) => dec.err # NoErr
          /\ dec.err = NoErr => dec.v.k = "int32" /\ SameNumber(dec.v, jstream[1])
    /\ NumberDecoded("long") =>
          /\ (~IsIntegerDoc(jstream[1]) \/ ~InInt64(jstream[1])) => dec.err # NoErr
          /\ dec.err = NoErr => dec.v.k = "int64" /\ SameNumber(dec.v, jstream[1])

(* What holds of it: long as stated, and int for the numbers that are not  *)
(* integers or are outside of int64.                                       *)
JSONLongInRangeOrRefused ==
    /\ (NumberDecoded("int") /\ (~IsIntegerDoc(jstream[1]) \/ ~InInt64(jstream[1]))) =>
          dec.err # NoErr
    /\ NumberDecoded("long") =>
          /\ (~IsIntegerDoc(jstream[1]) \/ ~InInt64(jstream[1])) => dec.err # NoErr
          /\ dec.err = NoErr => dec.v.k = "int64" /\ SameNumber(dec.v, jstream[1])

(* 2147483648 decoded against int is returned as -2147483648, no error.    *)
JSONIntDecodeWrapsAround ==
    /\ NumberDecoded("int")
    /\ jstream = <<JNumText(FALSE, MinInt32Digits, << >>)>>
    /\ dec = JDecOk(Int32(-2147483647 - 1))

(* 9223372036854775807 decoded against long is returned as it is, and      *)
(* 9223372036854775808 is refused.                                         *)
JSONLongDecodeOfMax ==
    /\ NumberDecoded("long")
    /\ jstream = <<JNumText(FALSE, MaxInt64Digits, << >>)>>
    /\ dec = JDecOk(Int64Text(FALSE, MaxInt64Digits))

JSONLongDecodeOfPastMax ==
    /\ NumberDecoded("long")
    /\ jstream = <<JNumText(FALSE, MinInt64Digits, << >>)>>
    /\ dec.err # NoErr

(* ---- C21 ---------------------------------------------------------------- *)
JSONDecodeOps == {"JSONDecode", "JSONDecodeStream"}

(* One JSON document is in the stream.                                     *)
OneDocument == Len(jstream) = 1 /\ jstream[1].k # "bad"

(* The document is an object of the one member name: x, and x has not the  *)
(* shape want.                                                             *)
WrappedOtherShape(doc, name, want) ==
    doc.k = "obj" /\ Len(doc.v) = 1 /\ doc.v[1][1] = name /\ doc.v[1][2].k # want

(* C21: JSON decoding against a primitive codec fails with an error when   *)
(* the JSON value has not the shape of the type: null takes null only,     *)
(* boolean true and false only, string a JSON string only; and so the      *)
(* union's JSON decoding of {"null": x} and of {"string": x} fails when x  *)
(* is not null, is not a string.                                           *)
PrimitiveJSONShapeChecked ==
    (codec.err = NoErr /\ op \in JSONDecodeOps /\ OneDocument) =>
        /\ (codec.c.c = "null" /\ jstream[1].k # "null") => dec.err # NoErr
        /\ (codec.c.c = "boolean" /\ jstream[1].k # "bool") => dec.err # NoErr
        /\ (codec.c.c = "string" /\ jstream[1].k # "str") => dec.err # NoErr
        /\ (/\ codec.c.c = "union"
            /\ s_null \in DOMAIN codec.c.nameToJSONDecoder
            /\ WrappedOtherShape(jstream[1], s_null, "null")) => dec.err # NoErr
        /\ (/\ codec.c.c = "union"
            /\ s_string \in DOMAIN codec.c.nameToJSONDecoder
            /\ WrappedOtherShape(jstream[1], s_string, "str")) => dec.err # NoErr

(* What holds of it: int and long take a JSON number only, bytes a JSON    *)
(* string only.                                                            *)
NumberAndBytesJSONShapeChecked ==
    (codec.err = NoErr /\ op \in JSONDecodeOps /\ OneDocument) =>
        /\ (codec.c.c \in {"int", "long"} /\ jstream[1].k # "num") => dec.err # NoErr
        /\ (codec.c.c = "bytes" /\ jstream[1].k # "str") => dec.err # NoErr

(* The number 1 decoded against string is returned as a json.Number.       *)
StringJSONDecodeOfNumber ==
    /\ codec.err = NoErr /\ codec.c.c = "string"
    /\ op = "JSONDecodeStream"
    /\ jstream = <<JNum(1)>>
    /\ dec = JDecOk(JSONNumber(1))

(* true decoded against null, and "hi" against boolean, are returned.      *)
NullJSONDecodeOfTrue ==
    /\ codec.err = NoErr /\ codec.c.c = "null"
    /\ op = "JSONDecodeStream"
    /\ jstream = <<JBool(TRUE)>>
    /\ dec = JDecOk(GoBool(TRUE))

BooleanJSONDecodeOfString ==
    /\ codec.err = NoErr /\ codec.c.c = "boolean"
    /\ op = "JSONDecodeStream"
    /\ jstream = <<JStr(s_hi)>>
    /\ dec = JDecOk(GoString(s_hi))

(* {"null": 1} decoded against ["null","int"] returns the number.          *)
UnionJSONDecodeOfNullWrappingNumber ==
    /\ op = "JSONDecodeStream"
    /\ codec.err = NoErr /\ Schemas[sid] = NullableInt
    /\ jstream = <<JObj(<< <<s_null, JNum(1)>> >>)>>
    /\ dec = JDecOk(JSONNumber(1))

(* ---- C22 ---------------------------------------------------------------- *)
(* The names of the record, enum and fixed schemas of a schema tree.       *)
RECURSIVE DefinedNames(_)
DefinedNames(schema) ==
    CASE IsArray(schema) -> UNION {DefinedNames(schema.v[i]) : i \in DOMAIN schema.v}
      [] IsMap(schema) ->
            (IF /\ HasKey(schema, s_type) /\ HasKey(schema, s_name)
                /\ schema.v[s_type] \in {SStr(s_record), SStr(s_enum), SStr(s_fixed)}
             THEN {schema.v[s_name].v} ELSE {})
            \cup UNION {DefinedNames(schema.v[key]) :
                            key \in DOMAIN schema.v \cap {s_type, s_items, s_values, s_fields}}
      [] OTHER -> {}

(* The error at the bottom of the chain of wrapped errors.                 *)
RECURSIVE RootCause(_)
RootCause(e) == IF e.e = "error" /\ e.cause # NoErr THEN RootCause(e.cause) ELSE e

(* C22: over any sequence of NewCodec calls, the symbol table a build ends *)
(* with holds names of record, enum and fixed schemas of its own schema    *)
(* only, all of them when the build succeeds; a name that only a schema    *)
(* built before defined is not resolved, and a schema that refers to it is *)
(* refused with the error unknown type name.                               *)
SymbolTableOfOneBuild ==
    op = "idle" =>
        /\ DOMAIN codec.st \subseteq DefinedNames(Schemas[sid])
        /\ codec.err = NoErr => DOMAIN codec.st = DefinedNames(Schemas[sid])
        /\ \A name \in earlier :
              (name \notin DefinedNames(Schemas[sid]) /\ Mentions(Schemas[sid], name)) =>
                  /\ codec.err # NoErr
                  /\ RootCause(codec.err).msg = "unknown type name"

(* After a build of a schema that defines the enum E, NewCodec of "E" has  *)
(* failed with unknown type name.                                          *)
EarlierNameUnknown ==
    /\ op = "idle"
    /\ s_E \in earlier
    /\ Schemas[sid] = SStr(s_E)
    /\ codec.err = Err("unknown", "unknown type name")
    /\ codec.st = newSymbolTable

(* ---- C23 ---------------------------------------------------------------- *)
(* The schema of field i of a record schema; whether a schema defines a    *)
(* named type, and the name it defines.                                    *)
FieldSchema(schema, i) == schema.v[s_fields].v[i].v[s_type]
IsDefinition(schema) ==
    /\ IsMap(schema) /\ HasKey(schema, s_type) /\ HasKey(schema, s_name)
    /\ schema.v[s_type] \in {SStr(s_record), SStr(s_enum), SStr(s_fixed)}
DefinedName(schema) == schema.v[s_name].v

RecordBuilt ==
    op = "idle" /\ codec.err = NoErr /\ codec.c.c = "record" /\ IsDefinition(Schemas[sid])

(* C23: after a successful build every record, enum and fixed schema of    *)
(* the tree has an entry of its name in the symbol table, a field that     *)
(* refers to a name defined in a field before it has the codec of that     *)
(* definition, which is the entry of the name, and when two fields define  *)
(* the same name the entry stays the codec of the first of them.           *)
NamedTypeDefinedOnce ==
    /\ (op = "idle" /\ codec.err = NoErr) =>
          DefinedNames(Schemas[sid]) \subseteq DOMAIN codec.st
    /\ RecordBuilt =>
          LET schema == Schemas[sid]
              n == Len(schema.v[s_fields].v)
              Defines(i, name) ==
                  IsDefinition(FieldSchema(schema, i)) /\ DefinedName(FieldSchema(schema, i)) = name
          IN  \A i \in 1..n : \A name \in DOMAIN codec.st :
                  (Defines(i, name) /\ \A h \in 1..(i - 1) : ~Defines(h, name)) =>
                      /\ codec.st[name] = codec.c.fieldCodecs[i]
                      /\ \A j \in (i + 1)..n :
                            FieldSchema(schema, j) = SStr(name) =>
                                codec.c.fieldCodecs[j] = codec.c.fieldCodecs[i]

(* What holds of it: every definition has an entry, and a name that one    *)
(* field alone defines is resolved to the codec of that definition.        *)
NamedTypeDefinedOnceResolves ==
    /\ (op = "idle" /\ codec.err = NoErr) =>
          DefinedNames(Schemas[sid]) \subseteq DOMAIN codec.st
    /\ RecordBuilt =>
          LET schema == Schemas[sid]
              n == Len(schema.v[s_fields].v)
              Defines(i, name) ==
                  IsDefinition(FieldSchema(schema, i)) /\ DefinedName(FieldSchema(schema, i)) = name
          IN  \A i \in 1..n : \A name \in DOMAIN codec.st :
                  (Defines(i, name) /\ \A h \in (1..n) \ {i} : ~Defines(h, name)) =>
                      /\ codec.st[name] = codec.c.fieldCodecs[i]
                      /\ \A j \in (i + 1)..n :
                            FieldSchema(schema, j) = SStr(name) =>
                                codec.c.fieldCodecs[j] = codec.c.fieldCodecs[i]

(* The build of the record that defines E twice has succeeded; the entry   *)
(* of E is the second definition, and the reference has its codec.         *)
SecondDefinitionReplacedFirst ==
    /\ op = "idle" /\ codec.err = NoErr
    /\ Schemas[sid] = TwiceE
    /\ codec.c.fieldCodecs[1].symtab = <<s_A, s_B>>
    /\ codec.st[s_E].symtab = <<s_C>>
    /\ codec.c.fieldCodecs[3] = codec.st[s_E]

(* The reference to E in R{e: enum E, f: "E"} has the codec of the enum.   *)
ReferenceResolvedToDefinition ==
    /\ RecordBuilt
    /\ Len(codec.c.fieldCodecs) = 2
    /\ FieldSchema(Schemas[sid], 2) = SStr(s_E)
    /\ codec.c.fieldCodecs[2] = codec.c.fieldCodecs[1]
    /\ codec.st[s_E] = codec.c.fieldCodecs[1]

(* ---- C24 ---------------------------------------------------------------- *)
CallOps == {"Encode", "Decode", "DecodeStream", "JSONEncode"} \cup JSONDecodeOps

(* The call whose results the caller holds ended in a panic.               *)
CallPanicked ==
    IF op \in {"Encode", "JSONEncode"} THEN IsPanic(enc.err) ELSE IsPanic(dec.err)

(* C24: every call of Encode, Decode, JSONEncode and JSONDecode on a built *)
(* codec returns, with a value or with an error: none ends in a panic, for *)
(* any datum and any input.                                                *)
EveryCallReturns == (codec.err = NoErr /\ op \in CallOps) => ~CallPanicked

(* What holds of it: Decode never panics, and a call that panics is a      *)
(* JSONDecode or the Encode or JSONEncode of a *Record.                    *)
OnlyKnownCallsPanic ==
    (codec.err = NoErr /\ op \in CallOps /\ CallPanicked) =>
        \/ op \in JSONDecodeOps
        \/ op \in {"Encode", "JSONEncode"} /\ datum.k = "*Record"

(* Encode of a record of three fields under a schema of two fields panics  *)
(* with an index out of range.                                             *)
RecordEncodeOfLongerRecordPanics ==
    /\ codec.err = NoErr /\ codec.c.c = "record"
    /\ op = "Encode"
    /\ datum.k = "*Record"
    /\ Len(datum.Fields) = 3 /\ Len(codec.c.fieldCodecs) = 2
    /\ IsPanic(enc.err)

RecordJSONEncodeOfLongerRecordPanics ==
    /\ codec.err = NoErr /\ codec.c.c = "record"
    /\ op = "JSONEncode"
    /\ datum.k = "*Record"
    /\ Len(datum.Fields) = 3 /\ Len(codec.c.fieldCodecs) = 2
    /\ IsPanic(enc.err)

(* JSONDecode of the number 1 against an enum panics.                      *)
EnumJSONDecodeOfNumberPanics ==
    /\ EnumCodec /\ op = "JSONDecodeStream"
    /\ jstream = <<JNum(1)>>
    /\ IsPanic(dec.err)

====
